---------------------------- MODULE Spec2Model ----------------------------
(***************************************************************************)
(* A model of the variable classes of bids/analysis/variables/variables.py *)
(* (BIDSVariable, SimpleVariable, SparseRunVariable, DenseRunVariable), of *)
(* the transformations of bids/events/transform/compute.py (sum,           *)
(* threshold), and of the collections and the Factor and DropNA            *)
(* transformations the tests exercise.                                     *)
(*                                                                         *)
(* Times (onsets, durations, run durations) are rationals with the fixed   *)
(* denominator TimeDen: the integer t stands for t / TimeDen seconds.      *)
(* Sampling rates are whole numbers of Hz.  A call that raises is recorded *)
(* by the name of the exception it raises.                                 *)
(***************************************************************************)
EXTENDS Integers, Sequences, FiniteSets, TLC

(***************************************************************************)
(* Bounds of the model.                                                    *)
(***************************************************************************)
TimeDen == 2
MaxRows == 2
MaxOnset == 4
MaxDur == 3
MaxRate == 3
MaxObjs == 3
MaxSteps == 2

VARIABLES
    sparse,     \* to_dense: the rows of the SparseRunVariable, in order
    tdRate,     \* to_dense: the sampling_rate argument
    tdRunDur,   \* to_dense: the duration line 215 multiplies by the rate
    tdPc,       \* to_dense: "ready" before the call, "done" after it
    tdTs,       \* to_dense: the local buffer ts when the call ended
    tdRet,      \* to_dense: how the call ended
    heap,       \* the variable objects: object id -> attributes
    cells,      \* the containers (Series, DataFrame, ndarray) they refer to
    last,       \* the last call: its arguments, its outcome, the state before
    steps,      \* the number of calls made
    call,       \* a call of a function of its arguments alone: the arguments
    res,        \* how that call ended
    res2,       \* how the call made on its result ended
    colls       \* the collections: their mappings from names to variables

tdVars == <<sparse, tdRate, tdRunDur, tdPc, tdTs, tdRet>>
objVars == <<heap, cells, last, steps>>
fnVars == <<call, res, res2, colls>>

vars == <<sparse, tdRate, tdRunDur, tdPc, tdTs, tdRet, heap, cells, last, steps,
          call, res, res2, colls>>

(***************************************************************************)
(* Arithmetic of the standard library, on the rational p / q, p >= 0,      *)
(* q > 0.                                                                  *)
(***************************************************************************)
\* math.ceil / np.ceil
Ceil(p, q) == (p + q - 1) \div q

\* round / np.round: to the nearest integer, a half to the even neighbour
Round(p, q) ==
    LET f == p \div q
        r == p % q
    IN  IF 2 * r < q THEN f
        ELSE IF 2 * r > q THEN f + 1
        ELSE IF f % 2 = 0 THEN f ELSE f + 1

MinOf(S) == CHOOSE x \in S : \A y \in S : x <= y
MaxOf(S) == CHOOSE x \in S : \A y \in S : x >= y

RECURSIVE Gcd(_, _)
Gcd(a, b) == IF b = 0 THEN a ELSE Gcd(b, a % b)

\* The rational p / q in lowest terms, as the pair <<p, q>>.
Rat(p, q) == LET g == Gcd(p, q) IN <<p \div g, q \div g>>

(***************************************************************************)
(* Outcomes of a call.                                                     *)
(***************************************************************************)
NoCall == [kind |-> "none"]
NoLast == [op |-> "none"]
Raise(exc) == [kind |-> "raise", exc |-> exc]
Return(val) == [kind |-> "return", val |-> val]

\* a call that returns nothing returns None; a call that returns a variable
\* returns its object id
ReturnNone == Return(0)

(***************************************************************************)
(* DenseRunVariable.__init__(self, name, values, run_info, sampling_rate): *)
(* no parameter has a default, so a call binds only when it passes all     *)
(* four; otherwise it raises TypeError before the body runs.               *)
(***************************************************************************)
DenseInitParams == {"name", "values", "run_info", "sampling_rate"}

DenseInitBinds(passed) == DenseInitParams \subseteq passed

(***************************************************************************)
(* SparseRunVariable.to_dense                                              *)
(***************************************************************************)
Event == [onset : 0..MaxOnset, duration : 1..MaxDur, amplitude : {1, 2}]

EvStart(ev, rate) == Round(ev.onset * rate, TimeDen)
EvEnd(ev, rate) == EvStart(ev, rate) + Round(ev.duration * rate, TimeDen)

\* ts[start:end] = row (line 223): a numpy slice assignment stops at the
\* end of the array; sample position p (from 0) is ts[p + 1] here.
SliceAssign(ts, start, end, row) ==
    [k \in 1..Len(ts) |-> IF start <= k - 1 /\ k - 1 < end THEN row ELSE ts[k]]

\* the loop of lines 221-223 from row i on
RECURSIVE FillFrom(_, _, _, _)
FillFrom(ts, rows, rate, i) ==
    IF i > Len(rows) THEN ts
    ELSE FillFrom(SliceAssign(ts, EvStart(rows[i], rate), EvEnd(rows[i], rate),
                              rows[i].amplitude),
                  rows, rate, i + 1)

\* lines 215-223: the buffer the loop leaves
DenseBuffer(rows, rate, dur) ==
    FillFrom([k \in 1..Ceil(rate * dur, TimeDen) |-> 0], rows, rate, 1)

\* line 225: DenseRunVariable(self.name, pd.DataFrame(ts))
ToDenseResult(ts) ==
    IF DenseInitBinds({"name", "values"})
    THEN Return(ts)
    ELSE Raise("TypeError")

ToDense ==
    /\ tdPc = "ready"
    /\ tdTs' = DenseBuffer(sparse, tdRate, tdRunDur)
    /\ tdRet' = ToDenseResult(tdTs')
    /\ tdPc' = "done"
    /\ UNCHANGED <<sparse, tdRate, tdRunDur>>
    /\ UNCHANGED objVars
    /\ UNCHANGED fnVars

InitToDense ==
    /\ sparse \in UNION {[1..n -> Event] : n \in 1..MaxRows}
    /\ tdRate \in 1..MaxRate
    /\ tdRunDur \in {MaxOnset, MaxOnset + 1}
    /\ tdPc = "ready"
    /\ tdTs = <<>>
    /\ tdRet = NoCall
    /\ heap = <<>>
    /\ cells = <<>>
    /\ last = NoLast
    /\ steps = 0
    /\ call = NoCall
    /\ res = NoCall
    /\ res2 = NoCall
    /\ colls = NoCall

NextToDense == ToDense

SpecToDense == InitToDense /\ [][NextToDense]_vars

(***************************************************************************)
(* Variable objects.                                                       *)
(*                                                                         *)
(* A container (a pandas Series or DataFrame, a numpy array) is a record   *)
(* [data, ndim, name]: its rows in order, its number of dimensions, and    *)
(* the name a Series carries.  Values are rationals <<p, q>>.  A variable  *)
(* holds its name, its containers (values, entities and, for a sparse      *)
(* variable, onset and duration), its run descriptors and sampling rate.   *)
(***************************************************************************)
NoName == ""
NoContainer == [data |-> <<>>, ndim |-> 0, name |-> NoName]

Series(data, name) == [data |-> data, ndim |-> 1, name |-> name]
DataFrame(rows) == [data |-> rows, ndim |-> 2, name |-> NoName]
NdArray(data) == [data |-> data, ndim |-> 1, name |-> NoName]

\* .shape: (n,) for a Series or 1-d array, (n, 1) for a one-column frame
Shape(c) == IF c.ndim = 1 THEN <<Len(c.data)>> ELSE <<Len(c.data), 1>>

\* a run descriptor: its entities and its duration
Run(ent, dur) == [entities |-> ent, duration |-> dur]

MsPerSecond == 1000

\* build_entity_index: one row per sample of each run, the run's entities
\* broadcast over its block, and a time column restarting with each run
RunBlock(run, rate) ==
    [k \in 1..Ceil(run.duration * rate, TimeDen) |->
        [ent |-> run.entities, time |-> (k - 1) * Round(MsPerSecond, rate)]]

RECURSIVE ConcatBlocks(_, _, _)
ConcatBlocks(run_info, rate, i) ==
    IF i > Len(run_info) THEN <<>>
    ELSE RunBlock(run_info[i], rate) \o ConcatBlocks(run_info, rate, i + 1)

build_entity_index(run_info, rate) == DataFrame(ConcatBlocks(run_info, rate, 1))

\* DenseRunVariable.__init__
DenseRunVariable(name, values, run_info, sampling_rate) ==
    [cls |-> "Dense", name |-> name,
     values |-> Series(values, name),
     entities |-> build_entity_index(run_info, sampling_rate),
     onset |-> NoContainer, duration |-> NoContainer,
     run_info |-> run_info, sampling_rate |-> sampling_rate]

\* SimpleVariable.__init__ on a frame with the given amplitude column and
\* entity rows
SimpleVariable(name, amplitude, entRows) ==
    [cls |-> "Simple", name |-> name,
     values |-> Series(amplitude, name),
     entities |-> DataFrame(entRows),
     onset |-> NoContainer, duration |-> NoContainer,
     run_info |-> <<>>, sampling_rate |-> 0]

\* SparseRunVariable.__init__
SparseRunVariable(name, amplitude, onset, duration, entRows, run_info) ==
    [cls |-> "Sparse", name |-> name,
     values |-> Series(amplitude, name),
     entities |-> DataFrame(entRows),
     onset |-> NdArray(onset), duration |-> NdArray(duration),
     run_info |-> run_info, sampling_rate |-> 0]

(***************************************************************************)
(* scipy.interpolate.interp1d(x, y, kind) with x = arange(n), evaluated at *)
(* np.linspace(0, n - 1, num).                                             *)
(***************************************************************************)
Kinds == {"linear", "bogus"}

\* what constructing the interpolant raises, or "ok"
Interp1dCheck(n, y, kind) ==
    IF kind # "linear" THEN "NotImplementedError"
    ELSE IF Len(y) # n THEN "ValueError"
    ELSE "ok"

\* the linear interpolant at the j-th of num points (j from 0)
LinearAt(y, j, n, num) ==
    LET m == num - 1 IN
    IF m = 0 THEN y[1]
    ELSE LET k == (j * (n - 1)) \div m
             r == j * (n - 1) - k * m
         IN  IF r = 0 THEN y[k + 1]
             ELSE Rat((m - r) * y[k + 1][1] * y[k + 2][2]
                        + r * y[k + 2][1] * y[k + 1][2],
                      m * y[k + 1][2] * y[k + 2][2])

Interpolate(y, n, num) == [j \in 1..num |-> LinearAt(y, j - 1, n, num)]

(***************************************************************************)
(* DenseRunVariable.resample with inplace=True, on the attributes v of the *)
(* receiver: the attributes it leaves, the attributes it has assigned, and *)
(* how the call ends.                                                      *)
(***************************************************************************)
\* lines 315-327: the entity index rebuilt, then the values interpolated
ResampleBody(v, sampling_rate, kind) ==
    IF sampling_rate = 0
    THEN [obj |-> v, assigned |-> {}, ret |-> Raise("ZeroDivisionError")]
    ELSE
    LET old_sr == v.sampling_rate
        n == Len(v.entities.data)
        v1 == [v EXCEPT !.entities = build_entity_index(v.run_info, sampling_rate)]
        num == Ceil(n * sampling_rate, old_sr)
        chk == Interp1dCheck(n, v.values.data, kind)
    IN  IF chk # "ok"
        THEN [obj |-> v1, assigned |-> {"entities"}, ret |-> Raise(chk)]
        ELSE [obj |-> [v1 EXCEPT
                         !.values = DataFrame(Interpolate(v.values.data, n, num)),
                         !.sampling_rate = sampling_rate],
              assigned |-> {"entities", "values"},
              ret |-> ReturnNone]

\* resample without the test of lines 312-313
ResampleInPlaceAlways(v, sampling_rate, kind) ==
    ResampleBody(v, sampling_rate, kind)

ResampleInPlace(v, sampling_rate, kind) ==
    IF sampling_rate = v.sampling_rate
    THEN [obj |-> v, assigned |-> {}, ret |-> ReturnNone]
    ELSE ResampleBody(v, sampling_rate, kind)

(***************************************************************************)
(* BIDSVariable.clone on the attributes v: deepcopy, then the replacement  *)
(* data and the name override.  data is NoContainer for data=None and      *)
(* nameKw is NoName when kwargs holds no name.                             *)
(***************************************************************************)
CloneOf(v, data, nameKw) ==
    LET result == v
        shapeOk == Shape(data) = Shape(v.values)
        r1 == IF data = NoContainer THEN result
              ELSE [result EXCEPT !.values = Series(data.data, NoName)]
        r2 == IF nameKw = NoName THEN r1 ELSE [r1 EXCEPT !.name = nameKw]
        r3 == [r2 EXCEPT !.values.name =
                            IF nameKw = NoName THEN v.name ELSE nameKw]
    IN  IF data # NoContainer /\ ~shapeOk
        THEN [obj |-> v, ret |-> Raise("ValueError")]
        ELSE IF data # NoContainer /\ data.ndim # 1
        THEN [obj |-> v, ret |-> Raise("Exception")]
        ELSE [obj |-> r3, ret |-> Return("result")]

(***************************************************************************)
(* The object heap.  An object of the heap holds, for each container       *)
(* attribute, a reference to a cell (NoRef when the class has no such      *)
(* attribute); two objects that refer to one cell share that container.    *)
(***************************************************************************)
ObjIds == 1..MaxObjs
CellIds == 1..(4 * MaxObjs + 4)
NoObj == [cls |-> "none"]
NoRef == 0
FieldSeq == <<"values", "entities", "onset", "duration">>
Fields == {"values", "entities", "onset", "duration"}

Live(h) == {i \in ObjIds : h[i].cls # "none"}
Refs(o) == {o[f] : f \in Fields} \ {NoRef}
FreeCells(h) == CellIds \ UNION {Refs(h[i]) : i \in Live(h)}
Shared(h, i, r) == \E j \in Live(h) \ {i} : r \in Refs(h[j])

RECURSIVE SetToSeq(_)
SetToSeq(S) ==
    IF S = {} THEN <<>> ELSE <<MinOf(S)>> \o SetToSeq(S \ {MinOf(S)})

Deref(c, r) == IF r = NoRef THEN NoContainer ELSE c[r]

\* the attributes of object i, its containers read through their references
View(h, c, i) ==
    [h[i] EXCEPT !.values = Deref(c, h[i].values),
                 !.entities = Deref(c, h[i].entities),
                 !.onset = Deref(c, h[i].onset),
                 !.duration = Deref(c, h[i].duration)]

Snapshot(h, c) ==
    [i \in ObjIds |-> IF i \in Live(h) THEN View(h, c, i) ELSE NoObj]

\* a new object j with attributes v, each of its containers in a cell of
\* its own
NewObject(h, c, j, v) ==
    LET free == SetToSeq(FreeCells(h))
        ref(fi) == IF v[FieldSeq[fi]] = NoContainer THEN NoRef ELSE free[fi]
    IN  [heap |-> [h EXCEPT ![j] =
                     [v EXCEPT !.values = ref(1), !.entities = ref(2),
                               !.onset = ref(3), !.duration = ref(4)]],
         cells |-> [k \in CellIds |->
                     IF \E fi \in 1..4 : ref(fi) = k
                     THEN v[FieldSeq[CHOOSE fi \in 1..4 : ref(fi) = k]]
                     ELSE c[k]]]

\* self.<f> = <new container> for each f of assigned, and the plain
\* attributes of v: an assignment binds the attribute to a new container,
\* so a container another object shares is left as it was
AssignAttrs(h, c, i, v, assigned) ==
    LET free == SetToSeq(FreeCells(h))
        ref(fi) ==
            LET f == FieldSeq[fi] IN
            IF f \notin assigned THEN h[i][f]
            ELSE IF h[i][f] # NoRef /\ ~Shared(h, i, h[i][f]) THEN h[i][f]
            ELSE free[fi]
    IN  [heap |-> [h EXCEPT ![i] =
                     [v EXCEPT !.values = ref(1), !.entities = ref(2),
                               !.onset = ref(3), !.duration = ref(4)]],
         cells |-> [k \in CellIds |->
                     IF \E fi \in 1..4 : FieldSeq[fi] \in assigned /\ ref(fi) = k
                     THEN v[FieldSeq[CHOOSE fi \in 1..4 :
                                       FieldSeq[fi] \in assigned /\ ref(fi) = k]]
                     ELSE c[k]]]

\* copy.copy in place of deepcopy: the copy refers to the receiver's own
\* containers, and the name given to its Series is given to the receiver's
CloneShallow(h, c, i, data, nameKw) ==
    LET r == CloneOf(View(h, c, i), data, nameKw)
        j == MinOf(ObjIds \ Live(h))
        o == [h[i] EXCEPT !.name = r.obj.name]
    IN  IF r.ret.kind = "raise" THEN [heap |-> h, cells |-> c, ret |-> r.ret]
        ELSE IF data # NoContainer
        THEN LET n == AssignAttrs([h EXCEPT ![j] = o], c, j, r.obj, {"values"})
             IN  [heap |-> n.heap, cells |-> n.cells, ret |-> Return(j)]
        ELSE [heap |-> [h EXCEPT ![j] = o],
              cells |-> [c EXCEPT ![h[i].values].name = r.obj.values.name],
              ret |-> Return(j)]

\* BIDSVariable.clone on object i: the result is a new object
Clone(h, c, i, data, nameKw) ==
    LET r == CloneOf(View(h, c, i), data, nameKw)
        j == MinOf(ObjIds \ Live(h))
    IN  IF r.ret.kind = "raise" THEN [heap |-> h, cells |-> c, ret |-> r.ret]
        ELSE LET n == NewObject(h, c, j, r.obj)
             IN  [heap |-> n.heap, cells |-> n.cells, ret |-> Return(j)]

\* resample with inplace=False working on the receiver, not on a clone
ResampleOnSelf(h, c, i, sampling_rate, inplace, kind) ==
    LET rs == ResampleInPlace(View(h, c, i), sampling_rate, kind)
        st == AssignAttrs(h, c, i, rs.obj, rs.assigned)
    IN  [heap |-> st.heap, cells |-> st.cells,
         ret |-> IF inplace \/ rs.ret.kind = "raise" THEN rs.ret ELSE Return(i)]

\* DenseRunVariable.resample on object i
Resample(h, c, i, sampling_rate, inplace, kind) ==
    IF ~inplace
    THEN LET cl == Clone(h, c, i, NoContainer, NoName)
             var == cl.ret.val
             rs == ResampleInPlace(View(cl.heap, cl.cells, var), sampling_rate, kind)
             st == AssignAttrs(cl.heap, cl.cells, var, rs.obj, rs.assigned)
         IN  IF rs.ret.kind = "raise"
             THEN [heap |-> h, cells |-> c, ret |-> rs.ret]
             ELSE [heap |-> st.heap, cells |-> st.cells, ret |-> Return(var)]
    ELSE LET rs == ResampleInPlace(View(h, c, i), sampling_rate, kind)
             st == AssignAttrs(h, c, i, rs.obj, rs.assigned)
         IN  [heap |-> st.heap, cells |-> st.cells, ret |-> rs.ret]

(***************************************************************************)
(* BIDSVariable.merge and the classes' _merge, on the attributes of the    *)
(* variables passed (columns, in order).  name is NoName for name=None.    *)
(***************************************************************************)
RECURSIVE ConcatData(_, _, _)
ConcatData(variables, f, k) ==
    IF k > Len(variables) THEN <<>>
    ELSE variables[k][f].data \o ConcatData(variables, f, k + 1)

\* the required parameters of each class's __init__, and whether a call
\* passing the given ones binds
InitParams(cls) ==
    IF cls = "Simple" THEN {"name", "data"}
    ELSE IF cls = "Sparse" THEN {"name", "data", "run_info"}
    ELSE DenseInitParams

InitBinds(cls, passed) == InitParams(cls) \subseteq passed

\* SimpleVariable._merge, inherited by SparseRunVariable
SimpleMerge(cls, variables, name) ==
    IF InitBinds(cls, {"name", "data"})
    THEN [obj |-> SimpleVariable(name, ConcatData(variables, "values", 1),
                                 ConcatData(variables, "entities", 1)),
          ret |-> Return("result"), locals |-> <<>>]
    ELSE [obj |-> NoObj, ret |-> Raise("TypeError"), locals |-> <<>>]

\* v.clone().resample(sampling_rate) of line 337, on attributes
Harmonized(v, sampling_rate) ==
    LET c1 == CloneOf(v, NoContainer, NoName).obj
        c2 == CloneOf(c1, NoContainer, NoName).obj
    IN  ResampleInPlace(c2, sampling_rate, "linear")

\* DenseRunVariable._merge with sampling_rate=None: the inputs harmonized
\* (locals), then v.to_df(), which DenseRunVariable does not define
DenseMerge(variables, name) ==
    LET sampling_rate == MaxOf({variables[k].sampling_rate : k \in DOMAIN variables})
        hz == [k \in DOMAIN variables |-> Harmonized(variables[k], sampling_rate)]
        bad == {k \in DOMAIN variables : hz[k].ret.kind = "raise"}
    IN  IF bad # {}
        THEN [obj |-> NoObj, ret |-> hz[MinOf(bad)].ret, locals |-> <<>>]
        ELSE [obj |-> NoObj, ret |-> Raise("AttributeError"),
              locals |-> [k \in DOMAIN variables |-> hz[k].obj]]

MergeOf(cls, columns, name) ==
    LET col_names == {columns[k].name : k \in DOMAIN columns}
        nm == IF name = NoName THEN columns[1].name ELSE name
    IN  IF Cardinality(col_names) > 1
        THEN [obj |-> NoObj, ret |-> Raise("ValueError"), locals |-> <<>>]
        ELSE IF cls = "Dense" THEN DenseMerge(columns, nm)
        ELSE SimpleMerge(cls, columns, nm)

(***************************************************************************)
(* The calls a program makes on the variables it holds.                    *)
(***************************************************************************)
Names == {"a", "b"}
Rates == 0..MaxRate

\* v.resample(sampling_rate, inplace, kind)
DoResample(i, sampling_rate, inplace, kind) ==
    /\ steps < MaxSteps
    /\ i \in Live(heap)
    /\ heap[i].cls = "Dense"
    /\ inplace \/ Live(heap) # ObjIds
    /\ LET r == Resample(heap, cells, i, sampling_rate, inplace, kind) IN
        /\ heap' = r.heap
        /\ cells' = r.cells
        /\ last' = [op |-> "resample", self |-> i, sampling_rate |-> sampling_rate,
                    inplace |-> inplace, kind |-> kind, ret |-> r.ret,
                    pre |-> Snapshot(heap, cells)]
    /\ steps' = steps + 1
    /\ UNCHANGED tdVars
    /\ UNCHANGED fnVars

\* the replacement data a caller may pass to clone: none, an array of the
\* shape of the values, one row longer, or of the other dimensionality
DataArgs(v) ==
    LET n == Len(v.values.data)
        fill(m) == [k \in 1..m |-> <<5, 1>>]
    IN  {NoContainer,
         [data |-> fill(n), ndim |-> v.values.ndim, name |-> NoName],
         [data |-> fill(n + 1), ndim |-> v.values.ndim, name |-> NoName],
         [data |-> fill(n), ndim |-> 3 - v.values.ndim, name |-> NoName]}

\* v.clone(data, name=nameKw)
DoClone(i, data, nameKw) ==
    /\ steps < MaxSteps
    /\ i \in Live(heap)
    /\ Live(heap) # ObjIds
    /\ LET r == Clone(heap, cells, i, data, nameKw) IN
        /\ heap' = r.heap
        /\ cells' = r.cells
        /\ last' = [op |-> "clone", self |-> i, data |-> data, nameKw |-> nameKw,
                    ret |-> r.ret, pre |-> Snapshot(heap, cells)]
    /\ steps' = steps + 1
    /\ UNCHANGED tdVars
    /\ UNCHANGED fnVars

\* v.<f>[0] = x: an element of a container written in place
Marker(f) ==
    IF f = "values" THEN <<7, 1>>
    ELSE IF f = "entities" THEN [ent |-> 9, time |-> 0]
    ELSE 7

DoSetItem(i, f) ==
    /\ steps < MaxSteps
    /\ i \in Live(heap)
    /\ heap[i][f] # NoRef
    /\ cells[heap[i][f]].data # <<>>
    /\ cells' = [cells EXCEPT ![heap[i][f]].data[1] = Marker(f)]
    /\ last' = [op |-> "setitem", self |-> i, field |-> f, ret |-> ReturnNone,
                pre |-> Snapshot(heap, cells)]
    /\ steps' = steps + 1
    /\ UNCHANGED <<heap, tdVars>>
    /\ UNCHANGED fnVars

\* v.name = name
DoSetName(i, name) ==
    /\ steps < MaxSteps
    /\ i \in Live(heap)
    /\ heap' = [heap EXCEPT ![i].name = name]
    /\ last' = [op |-> "setname", self |-> i, name |-> name, ret |-> ReturnNone,
                pre |-> Snapshot(heap, cells)]
    /\ steps' = steps + 1
    /\ UNCHANGED <<cells, tdVars>>
    /\ UNCHANGED fnVars

\* cls.merge([v_i, v_j], name) on two variables of class cls
DoMerge(i, j, name) ==
    /\ steps < MaxSteps
    /\ i \in Live(heap) /\ j \in Live(heap) /\ i # j
    /\ heap[i].cls = heap[j].cls
    /\ Live(heap) # ObjIds
    /\ LET r == MergeOf(heap[i].cls,
                        <<View(heap, cells, i), View(heap, cells, j)>>, name)
           n == NewObject(heap, cells, MinOf(ObjIds \ Live(heap)), r.obj)
       IN
        /\ heap' = IF r.ret.kind = "return" THEN n.heap ELSE heap
        /\ cells' = IF r.ret.kind = "return" THEN n.cells ELSE cells
        /\ last' = [op |-> "merge", columns |-> <<i, j>>, name |-> name,
                    ret |-> IF r.ret.kind = "return"
                            THEN Return(MinOf(ObjIds \ Live(heap))) ELSE r.ret,
                    locals |-> r.locals, pre |-> Snapshot(heap, cells)]
    /\ steps' = steps + 1
    /\ UNCHANGED tdVars
    /\ UNCHANGED fnVars

(***************************************************************************)
(* The variables a program starts with: one variable, as a loader builds   *)
(* it (a dense variable holds one value per row of its entity index).      *)
(***************************************************************************)
RunInfos ==
    {<<Run(1, TimeDen + 1)>>, <<Run(1, 2 * TimeDen)>>,
     <<Run(1, TimeDen + 1), Run(2, 2 * TimeDen)>>}

Ramp(n) == [k \in 1..n |-> <<k - 1, 1>>]

InitialVariables ==
    {DenseRunVariable("a", Ramp(Len(build_entity_index(ri, sr).data)), ri, sr) :
        ri \in RunInfos, sr \in 1..MaxRate}
    \cup {SimpleVariable("a", <<<<1, 1>>, <<2, 1>>>>,
                         <<[ent |-> 1, time |-> 0], [ent |-> 2, time |-> 0]>>)}
    \cup {SparseRunVariable("a", <<<<1, 1>>, <<2, 1>>>>, <<0, 2>>, <<2, 2>>,
                            <<[ent |-> 1, time |-> 0], [ent |-> 1, time |-> 0]>>,
                            <<Run(1, 2 * TimeDen)>>)}

StartWith(V) ==
    /\ \E v \in V :
         LET n == NewObject([i \in ObjIds |-> NoObj],
                            [k \in CellIds |-> NoContainer], 1, v)
         IN  heap = n.heap /\ cells = n.cells
    /\ last = NoLast
    /\ steps = 0
    /\ sparse = <<>>
    /\ tdRate = 0
    /\ tdRunDur = 0
    /\ tdPc = "idle"
    /\ tdTs = <<>>
    /\ tdRet = NoCall
    /\ call = NoCall
    /\ res = NoCall
    /\ res2 = NoCall
    /\ colls = NoCall

\* A program that clones, edits, resamples and merges its variables.
Init == StartWith(InitialVariables)

Next ==
    \/ \E i \in ObjIds, r \in 1..MaxRate, inplace \in BOOLEAN :
           DoResample(i, r, inplace, "linear")
    \/ \E i \in ObjIds :
           \E d \in (IF i \in Live(heap) THEN DataArgs(View(heap, cells, i)) ELSE {}),
              nm \in {NoName, "b"} :
               DoClone(i, d, nm)
    \/ \E i \in ObjIds, f \in Fields : DoSetItem(i, f)
    \/ \E i \in ObjIds, nm \in Names : DoSetName(i, nm)
    \/ \E i \in ObjIds, j \in ObjIds, nm \in {NoName, "b"} : DoMerge(i, j, nm)

Spec == Init /\ [][Next]_vars

\* A program that resamples dense variables, with every rate and kind.
InitResample == StartWith({v \in InitialVariables : v.cls = "Dense"})

NextResample ==
    \E i \in ObjIds, r \in Rates, inplace \in BOOLEAN, kind \in Kinds :
        DoResample(i, r, inplace, kind)

SpecResample == InitResample /\ [][NextResample]_vars

(***************************************************************************)
(* C1.  to_dense sums overlapping events: when the call has ended, every   *)
(* sample position p of the buffer holds the sum of the amplitudes of the  *)
(* rows i with start_i <= p < end_i, and 0 where no row covers p.          *)
(***************************************************************************)
RECURSIVE CoverSum(_, _, _, _)
CoverSum(rows, rate, p, i) ==
    IF i > Len(rows) THEN 0
    ELSE (IF EvStart(rows[i], rate) <= p /\ p < EvEnd(rows[i], rate)
          THEN rows[i].amplitude ELSE 0) + CoverSum(rows, rate, p, i + 1)

C1_DenseIsSumOfCoveringEvents ==
    tdPc = "done" =>
        \A k \in 1..Len(tdTs) : tdTs[k] = CoverSum(sparse, tdRate, k - 1, 1)

(***************************************************************************)
(* C2.  to_dense clips an event that overruns the run: when some row's end *)
(* lies past the buffer, the call returns, its output has                  *)
(* ceil(rate * run_duration) samples, and exactly the positions of the     *)
(* buffer some row covers are non-zero.                                    *)
(***************************************************************************)
Overruns(rows, rate, dur) ==
    \E i \in 1..Len(rows) : EvEnd(rows[i], rate) > Ceil(rate * dur, TimeDen)

C2_OverrunIsClippedNotRaised ==
    (tdPc = "done" /\ Overruns(sparse, tdRate, tdRunDur)) =>
        /\ tdRet.kind = "return"
        /\ Len(tdTs) = Ceil(tdRate * tdRunDur, TimeDen)
        /\ \A k \in 1..Len(tdTs) :
             (tdTs[k] # 0) <=>
                 \E i \in 1..Len(sparse) :
                     /\ EvStart(sparse[i], tdRate) <= k - 1
                     /\ k - 1 < EvEnd(sparse[i], tdRate)

(***************************************************************************)
(* Helpers of the claims about the object heap.                            *)
(***************************************************************************)
Now == Snapshot(heap, cells)

RECURSIVE ExpectedLen(_, _, _)
ExpectedLen(run_info, rate, i) ==
    IF i > Len(run_info) THEN 0
    ELSE Ceil(run_info[i].duration * rate, TimeDen) + ExpectedLen(run_info, rate, i + 1)

\* len(values) == len(entities) == sum of ceil(run.duration * sampling_rate)
LengthsAgree(v) ==
    /\ Len(v.values.data) = Len(v.entities.data)
    /\ Len(v.entities.data) = ExpectedLen(v.run_info, v.sampling_rate, 1)

Resampled == last.op = "resample"
Cloned == last.op = "clone"
Merged == last.op = "merge"

\* the objects other than those of S are as they were before the call
OthersUnchanged(S) == \A k \in ObjIds \ S : Now[k] = last.pre[k]

(***************************************************************************)
(* C3.  Dense length invariant: a resample call that returns, made on a    *)
(* variable whose values and entity index both have                        *)
(* sum(ceil(run.duration * sampling_rate)) rows, leaves the variable it    *)
(* changed or returned with values and entity index of                     *)
(* sum(ceil(run.duration * sampling_rate)) rows at the new rate.           *)
(***************************************************************************)
C3_ResampleKeepsLengths ==
    (Resampled /\ last.ret.kind = "return" /\ LengthsAgree(last.pre[last.self])) =>
        LengthsAgree(Now[IF last.inplace THEN last.self ELSE last.ret.val])

(***************************************************************************)
(* C4.  Resample identity, as claimed: resample(r) with r the current rate *)
(* leaves values, entities and sampling_rate unchanged, and the in-place   *)
(* call returns the receiver.                                              *)
(***************************************************************************)
SameRate == Resampled /\ last.sampling_rate = last.pre[last.self].sampling_rate

C4_IdentityReturnsSelf ==
    SameRate =>
        /\ Now[last.self] = last.pre[last.self]
        /\ last.inplace => last.ret = Return(last.self)

(***************************************************************************)
(* C4, amended.  resample(r) with r the current rate leaves the receiver's *)
(* values, entities and sampling_rate unchanged; the in-place call returns *)
(* None and changes no object at all; the copying call returns a new       *)
(* variable with the receiver's rows, entity index and rate.               *)
(***************************************************************************)
C4_IdentityIsNoOp ==
    SameRate =>
        /\ Now[last.self] = last.pre[last.self]
        /\ last.inplace => (last.ret = ReturnNone /\ Now = last.pre)
        /\ ~last.inplace =>
             /\ last.ret.kind = "return"
             /\ last.pre[last.ret.val] = NoObj
             /\ Now[last.ret.val].values.data = last.pre[last.self].values.data
             /\ Now[last.ret.val].entities = last.pre[last.self].entities
             /\ Now[last.ret.val].sampling_rate = last.sampling_rate

C4_Witness ==
    /\ SameRate
    /\ last.inplace
    /\ last.pre[last.self].values.ndim = 1
    /\ last.kind = "linear"

(***************************************************************************)
(* C5.  In-place resample is atomic: when resample(rate, inplace=True)     *)
(* raises, the receiver's values, entities and sampling_rate are what they *)
(* were before the call.                                                   *)
(***************************************************************************)
C5_InPlaceResampleAtomic ==
    (Resampled /\ last.inplace /\ last.ret.kind = "raise") =>
        Now[last.self] = last.pre[last.self]

C7_CloneDataShapeCheck ==
    (Cloned /\ last.data # NoContainer) =>
        IF Shape(last.data) # Shape(last.pre[last.self].values)
        THEN last.ret = Raise("ValueError") /\ Now = last.pre
        ELSE /\ last.ret.kind = "return"
             /\ Now[last.ret.val].values.data = last.data.data

(***************************************************************************)
(* C8.  Variable clone isolation: clone leaves the receiver's name,        *)
(* values, entities and timing as they were (an override goes to the copy  *)
(* alone, which is a new object), and a later write to a container or to   *)
(* the name of one variable, or an in-place resample of it, changes no     *)
(* other variable.                                                         *)
(***************************************************************************)
C8_CloneIsolation ==
    /\ Cloned =>
         /\ \A k \in ObjIds : last.pre[k] # NoObj => Now[k] = last.pre[k]
         /\ last.ret.kind = "return" =>
              /\ last.pre[last.ret.val] = NoObj
              /\ Now[last.ret.val].name =
                    IF last.nameKw = NoName THEN last.pre[last.self].name
                    ELSE last.nameKw
              /\ last.data = NoContainer =>
                    [Now[last.ret.val] EXCEPT !.name = "", !.values.name = ""] =
                    [last.pre[last.self] EXCEPT !.name = "", !.values.name = ""]
    /\ last.op \in {"setitem", "setname"} => OthersUnchanged({last.self})
    /\ (Resampled /\ last.inplace) => OthersUnchanged({last.self})

\* a write to a clone's values, the original standing beside it unchanged
C8_Witness ==
    /\ last.op = "setitem"
    /\ last.field = "values"
    /\ last.self = 2
    /\ Now[2] # last.pre[2]
    /\ Now[1] = last.pre[1]
    /\ Now[1].values.data[1] # Now[2].values.data[1]

(***************************************************************************)
(* C9.  merge name validation: merging variables that do not share one     *)
(* name raises ValueError when no name is given and returns a variable of  *)
(* that name when one is; merging variables that share a name, with no     *)
(* name given, returns a variable of the shared name.                      *)
(***************************************************************************)
MergedNamesDiffer ==
    last.pre[last.columns[1]].name # last.pre[last.columns[2]].name

C9_MergeNameValidation ==
    Merged =>
        /\ (MergedNamesDiffer /\ last.name = NoName) => last.ret = Raise("ValueError")
        /\ (MergedNamesDiffer /\ last.name # NoName) =>
             (last.ret.kind = "return" /\ Now[last.ret.val].name = last.name)
        /\ (~MergedNamesDiffer /\ last.name = NoName) =>
             /\ last.ret.kind = "return"
             /\ Now[last.ret.val].name = last.pre[last.columns[1]].name

(***************************************************************************)
(* C10.  Dense merge harmonization: merging two DenseRunVariables of one   *)
(* name and different sampling rates returns a variable whose              *)
(* sampling_rate is the larger rate and whose values are the blocks of the *)
(* inputs, each resampled to ceil(n_i * target / rate_i) samples, and      *)
(* leaves the inputs as they were.                                         *)
(***************************************************************************)
MergeInput(k) == last.pre[last.columns[k]]

C10_DenseMergeHarmonizes ==
    (/\ Merged
     /\ MergeInput(1).cls = "Dense"
     /\ ~MergedNamesDiffer
     /\ MergeInput(1).sampling_rate # MergeInput(2).sampling_rate
     /\ LengthsAgree(MergeInput(1)) /\ LengthsAgree(MergeInput(2))) =>
        LET target == MaxOf({MergeInput(1).sampling_rate, MergeInput(2).sampling_rate})
            blockLen(k) == Ceil(Len(MergeInput(k).values.data) * target,
                                MergeInput(k).sampling_rate)
        IN  /\ last.ret.kind = "return"
            /\ Now[last.ret.val].sampling_rate = target
            /\ Len(Now[last.ret.val].values.data) = blockLen(1) + blockLen(2)
            /\ \A k \in ObjIds : last.pre[k] # NoObj => Now[k] = last.pre[k]

(***************************************************************************)
(* SimpleVariable.split, inherited by SparseRunVariable, on the attributes *)
(* v and a grouper holding one key per row.                                *)
(***************************************************************************)
MaxSplitRows == 3
MaxKey == 2

\* the rows i..Len(grouper) of a column whose key is key, in order
RECURSIVE RowsOf(_, _, _, _)
RowsOf(data, grouper, key, i) ==
    IF i > Len(grouper) THEN <<>>
    ELSE (IF grouper[i] = key THEN <<data[i]>> ELSE <<>>)
         \o RowsOf(data, grouper, key, i + 1)

\* line 178: '%s.%s' % (self.name, name)
SplitName(name, key) == name \o "." \o ToString(key)

\* line 179, self.__class__(name, g): g holds the amplitude and property
\* columns of the group's rows and no entity column
SplitPart(v, grouper, key) ==
    LET amp == RowsOf(v.values.data, grouper, key, 1)
        ents == [k \in 1..Len(amp) |-> <<>>]
    IN  IF v.cls = "Simple"
        THEN SimpleVariable(SplitName(v.name, key), amp, ents)
        ELSE SparseRunVariable(SplitName(v.name, key), amp,
                               RowsOf(v.onset.data, grouper, key, 1),
                               RowsOf(v.duration.data, grouper, key, 1),
                               ents, <<>>)

\* the groups of data.groupby(grouper), in the order of their keys
Split(v, grouper) ==
    LET keys == SetToSeq({grouper[k] : k \in DOMAIN grouper})
    IN  IF keys # <<>> /\ ~InitBinds(v.cls, {"name", "data"})
        THEN [parts |-> <<>>, ret |-> Raise("TypeError")]
        ELSE [parts |-> [j \in DOMAIN keys |-> SplitPart(v, grouper, keys[j])],
              ret |-> Return("subsets")]

\* the variables split is called on: amplitudes 1 or 2, and for a sparse
\* variable one event per row
SplitInputs ==
    UNION {
      LET n == Len(amp) IN
      {SimpleVariable("a", [k \in 1..n |-> <<amp[k], 1>>],
                      [k \in 1..n |-> [ent |-> 1, time |-> 0]]),
       SparseRunVariable("a", [k \in 1..n |-> <<amp[k], 1>>],
                         [k \in 1..n |-> k - 1], [k \in 1..n |-> k],
                         [k \in 1..n |-> [ent |-> 1, time |-> 0]],
                         <<Run(1, 2 * TimeDen)>>)}
      : amp \in UNION {[1..n -> {1, 2}] : n \in 1..MaxSplitRows}}

InitSplit ==
    /\ \E v \in SplitInputs :
         \E g \in [1..Len(v.values.data) -> 0..MaxKey] :
            call = [op |-> "split", self |-> v, grouper |-> g]
    /\ res = NoCall
    /\ res2 = NoCall
    /\ colls = NoCall
    /\ heap = <<>>
    /\ cells = <<>>
    /\ last = NoLast
    /\ steps = 0
    /\ sparse = <<>>
    /\ tdRate = 0
    /\ tdRunDur = 0
    /\ tdPc = "idle"
    /\ tdTs = <<>>
    /\ tdRet = NoCall

\* v.split(grouper)
DoSplit ==
    /\ call.op = "split"
    /\ res = NoCall
    /\ res' = Split(call.self, call.grouper)
    /\ UNCHANGED <<call, res2, colls>>
    /\ UNCHANGED <<tdVars, objVars>>

\* cls.merge(parts, name) on the parts split returned
DoMergeParts(name) ==
    /\ call.op = "split"
    /\ res # NoCall
    /\ res.ret.kind = "return"
    /\ res.parts # <<>>
    /\ res2 = NoCall
    /\ res2' = MergeOf(call.self.cls, res.parts, name)
    /\ UNCHANGED <<call, res, colls>>
    /\ UNCHANGED <<tdVars, objVars>>

NextSplit ==
    \/ DoSplit
    \/ \E nm \in {NoName, "a"} : DoMergeParts(nm)

SpecSplit == InitSplit /\ [][NextSplit]_vars

(***************************************************************************)
(* C11.  split partitions rows: v.split(grouper), for a SimpleVariable or  *)
(* SparseRunVariable v and a grouper with N distinct keys, returns N       *)
(* variables of the class of v, the one of key g named '{v.name}.{g}' and  *)
(* holding exactly the rows of v whose key is g (value, and onset and      *)
(* duration for a sparse variable), in their order.                        *)
(***************************************************************************)
SplitDone == call.op = "split" /\ res # NoCall

GroupKeysOf(g) == SetToSeq({g[k] : k \in DOMAIN g})

C11_SplitPartitionsRows ==
    SplitDone =>
        LET v == call.self
            g == call.grouper
            keys == GroupKeysOf(g)
        IN  /\ res.ret.kind = "return"
            /\ Len(res.parts) = Len(keys)
            /\ \A j \in DOMAIN res.parts :
                 LET part == res.parts[j] IN
                 /\ part.cls = v.cls
                 /\ part.name = v.name \o "." \o ToString(keys[j])
                 /\ part.values.data = RowsOf(v.values.data, g, keys[j], 1)
                 /\ v.cls = "Sparse" =>
                      /\ part.onset.data = RowsOf(v.onset.data, g, keys[j], 1)
                      /\ part.duration.data = RowsOf(v.duration.data, g, keys[j], 1)

(***************************************************************************)
(* C12.  Split/merge inverse: merging the parts v.split(grouper) returned  *)
(* succeeds and yields a variable with as many rows as v and the same      *)
(* multiset of values.                                                     *)
(***************************************************************************)
CountOf(data, x) == Cardinality({k \in DOMAIN data : data[k] = x})

SameMultiset(a, b) ==
    /\ Len(a) = Len(b)
    /\ \A k \in DOMAIN a : CountOf(a, a[k]) = CountOf(b, a[k])

C12_SplitMergeInverse ==
    /\ SplitDone => res.ret.kind = "return"
    /\ (SplitDone /\ res2 # NoCall) =>
         /\ res2.ret.kind = "return"
         /\ SameMultiset(res2.obj.values.data, call.self.values.data)

(***************************************************************************)
(* aggregate(unit, func) of SimpleVariable (inherited by SparseRunVariable)*)
(* and of DenseRunVariable.  An entity row is a record with one field per  *)
(* entity column.                                                          *)
(***************************************************************************)
MaxAggRows == 2

\* line 127: levels = ['run', 'session', 'subject']
levels == <<"run", "session", "subject">>
Units == {"run", "session", "subject", "dataset"}
Funcs == {"mean", "max", "sum"}

\* self.entities.columns
ColumnsOf(v) ==
    IF v.entities.data = <<>> THEN {} ELSE DOMAIN v.entities.data[1]

\* line 128: set(levels[levels.index(unit):]) & set(self.entities.columns)
GroupBy(v, unit) ==
    LET at == CHOOSE k \in DOMAIN levels : levels[k] = unit
    IN  {levels[k] : k \in at..Len(levels)} \cap ColumnsOf(v)

\* line 129, list(groupby): a set lists its elements in an order of its own
Orders(S) == {o \in [1..Cardinality(S) -> S] : {o[k] : k \in DOMAIN o} = S}

RatAdd(a, b) == Rat(a[1] * b[2] + b[1] * a[2], a[2] * b[2])
RatLeq(a, b) == a[1] * b[2] <= b[1] * a[2]

RECURSIVE RatSum(_, _)
RatSum(data, i) ==
    IF i > Len(data) THEN <<0, 1>> ELSE RatAdd(data[i], RatSum(data, i + 1))

RECURSIVE RatMax(_, _)
RatMax(data, i) ==
    IF i = Len(data) THEN data[i]
    ELSE LET m == RatMax(data, i + 1)
         IN  IF RatLeq(m, data[i]) THEN data[i] ELSE m

\* .agg(func) on the amplitudes of one group
Agg(func, data) ==
    IF func = "mean" THEN LET s == RatSum(data, 1)
                          IN  Rat(s[1], s[2] * Len(data))
    ELSE IF func = "max" THEN RatMax(data, 1)
    ELSE RatSum(data, 1)

\* the key of a row: its values in the grouping columns, in their order
KeyOf(row, cols) == [k \in DOMAIN cols |-> row[cols[k]]]

RECURSIVE KeyLess(_, _, _)
KeyLess(a, b, i) ==
    /\ i <= Len(a)
    /\ \/ a[i] < b[i]
       \/ a[i] = b[i] /\ KeyLess(a, b, i + 1)

\* the group keys, sorted as groupby sorts them
RECURSIVE SortKeys(_)
SortKeys(S) ==
    IF S = {} THEN <<>>
    ELSE LET least == CHOOSE a \in S : \A b \in S \ {a} : KeyLess(a, b, 1)
         IN  <<least>> \o SortKeys(S \ {least})

\* the amplitudes of the rows i.. whose key is key
RECURSIVE GroupValues(_, _, _, _)
GroupValues(v, cols, key, i) ==
    IF i > Len(v.values.data) THEN <<>>
    ELSE (IF KeyOf(v.entities.data[i], cols) = key
          THEN <<v.values.data[i]>> ELSE <<>>)
         \o GroupValues(v, cols, key, i + 1)

\* aggregate with the grouping columns listed in the order cols
Aggregate(v, unit, func, cols) ==
    IF \A k \in DOMAIN levels : levels[k] # unit
    THEN [obj |-> NoObj, ret |-> Raise("ValueError")]
    ELSE IF v.cls = "Dense"
    THEN [obj |-> NoObj, ret |-> Raise("AttributeError")]
    ELSE IF cols = <<>>
    THEN [obj |-> NoObj, ret |-> Raise("ValueError")]
    ELSE LET keys == SortKeys({KeyOf(v.entities.data[i], cols) :
                                  i \in DOMAIN v.entities.data})
         IN  [obj |-> SimpleVariable(v.name,
                        [j \in DOMAIN keys |->
                            Agg(func, GroupValues(v, cols, keys[j], 1))],
                        [j \in DOMAIN keys |->
                            [c \in {cols[k] : k \in DOMAIN cols} |->
                                keys[j][CHOOSE k \in DOMAIN cols : cols[k] = c]]]),
              ret |-> Return("result")]

\* the variables aggregate is called on
AggColumns == {{"run", "subject"}, {"subject"}, {"task"}}

AggVariables(amp, ents) ==
    {SimpleVariable("a", [k \in 1..Len(amp) |-> <<amp[k], 1>>], ents),
     SparseRunVariable("a", [k \in 1..Len(amp) |-> <<amp[k], 1>>],
                       [k \in 1..Len(amp) |-> k - 1],
                       [k \in 1..Len(amp) |-> 1],
                       ents, <<Run(1, 2 * TimeDen)>>)}

AggInputs ==
    UNION {UNION {UNION {AggVariables(amp, ents)
                         : ents \in [1..Len(amp) -> [cols -> 1..2]]}
                  : amp \in UNION {[1..n -> {1, 2}] : n \in 1..MaxAggRows}}
           : cols \in AggColumns}
    \cup {DenseRunVariable("a", <<<<1, 1>>, <<2, 1>>>>, <<Run(1, 2 * TimeDen)>>, 1)}

InitAggregate ==
    /\ \E v \in AggInputs : call = [op |-> "aggregate", self |-> v]
    /\ res = NoCall
    /\ res2 = NoCall
    /\ colls = NoCall
    /\ heap = <<>>
    /\ cells = <<>>
    /\ last = NoLast
    /\ steps = 0
    /\ sparse = <<>>
    /\ tdRate = 0
    /\ tdRunDur = 0
    /\ tdPc = "idle"
    /\ tdTs = <<>>
    /\ tdRet = NoCall

\* v.aggregate(unit, func)
DoAggregate(unit, func) ==
    /\ call.op = "aggregate"
    /\ res = NoCall
    /\ \E cols \in (IF unit = "dataset" \/ call.self.cls = "Dense"
                    THEN {<<>>} ELSE Orders(GroupBy(call.self, unit))) :
          res' = Aggregate(call.self, unit, func, cols)
                    @@ [unit |-> unit, func |-> func]
    /\ UNCHANGED <<call, res2, colls>>
    /\ UNCHANGED <<tdVars, objVars>>

NextAggregate == \E unit \in Units, func \in Funcs : DoAggregate(unit, func)

SpecAggregate == InitAggregate /\ [][NextAggregate]_vars

(***************************************************************************)
(* C13.  aggregate(unit, func), for every unit of run, session, subject,   *)
(* dataset, returns a new SimpleVariable with one row per distinct         *)
(* combination of the entity levels at or above unit present in the        *)
(* variable, whose entity columns are those levels and whose values are    *)
(* func of the groups' values; it has no more rows than the original, and  *)
(* with func='max' every value is at least the group's mean.               *)
(***************************************************************************)
Aggregated == call.op = "aggregate" /\ res # NoCall

\* the levels at or above unit that are columns of the variable
LevelsFrom(v, unit) ==
    (IF unit = "run" THEN {"run", "session", "subject"}
     ELSE IF unit = "session" THEN {"session", "subject"}
     ELSE IF unit = "subject" THEN {"subject"}
     ELSE {}) \cap ColumnsOf(v)

Project(row, C) == [c \in C |-> row[c]]

C13_AggregateGroupsByLevel ==
    Aggregated =>
        LET v == call.self
            C == LevelsFrom(v, res.unit)
            combos == {Project(v.entities.data[i], C) : i \in DOMAIN v.entities.data}
            group(key) == {i \in DOMAIN v.values.data :
                              Project(v.entities.data[i], C) = key}
            out == res.obj
        IN  /\ res.ret.kind = "return"
            /\ out.cls = "Simple"
            /\ Len(out.values.data) = Cardinality(combos)
            /\ Len(out.values.data) <= Len(v.values.data)
            /\ {out.entities.data[j] : j \in DOMAIN out.entities.data} = combos
            /\ \A j \in DOMAIN out.values.data :
                 LET rows == SetToSeq(group(out.entities.data[j]))
                     vals == [k \in DOMAIN rows |-> v.values.data[rows[k]]]
                 IN  /\ out.values.data[j] = Agg(res.func, vals)
                     /\ res.func = "max" =>
                          RatLeq(Agg("mean", vals), out.values.data[j])

(***************************************************************************)
(* sum._transform(data, weights) of bids/events/transform/compute.py.      *)
(* data is what the caller hands over for the k input columns: a list of   *)
(* k Series (kind "list") or one frame of k columns (kind "frame"); cols   *)
(* holds the columns, each with one integer per row.  weights is None, a   *)
(* plain list or an ndarray.                                               *)
(***************************************************************************)
MaxSumCols == 2
SumRows == 2

NoWeights == [kind |-> "None", w |-> <<>>]

\* data.shape[1], or the exception the attribute access raises
ShapeOne(data) ==
    IF data.kind = "frame" THEN Return(Len(data.cols)) ELSE Raise("AttributeError")

\* pd.concat(data, axis=1): a frame of the listed columns; a frame passed
\* in place of a list of pandas objects is rejected
Concat(data) ==
    IF data.kind = "list" THEN Return([kind |-> "frame", cols |-> data.cols])
    ELSE Raise("TypeError")

RECURSIVE Dot(_, _, _, _)
Dot(cols, w, r, j) ==
    IF j > Len(cols) THEN 0 ELSE cols[j][r] * w[j] + Dot(cols, w, r, j + 1)

\* lines 28-34: the weights used, or the exception raised
SumWeights(data, weights) ==
    IF weights.kind = "None"
    THEN IF ShapeOne(data).kind = "raise" THEN ShapeOne(data)
         ELSE Return([j \in 1..ShapeOne(data).val |-> 1])
    ELSE IF weights.kind = "list" THEN Raise("AttributeError")
    ELSE IF ShapeOne(data).kind = "raise" THEN ShapeOne(data)
    ELSE IF Len(weights.w) # ShapeOne(data).val THEN Raise("ValueError")
    ELSE Return(weights.w)

SumTransform(data, weights) ==
    LET w == SumWeights(data, weights)
        frame == Concat(data)
    IN  IF w.kind = "raise" THEN w
        ELSE IF frame.kind = "raise" THEN frame
        ELSE Return([r \in 1..SumRows |-> Dot(frame.val.cols, w.val, r, 1)])

SumData ==
    UNION {[kind : {"list", "frame"}, cols : [1..k -> [1..SumRows -> 0..1]]]
           : k \in 1..MaxSumCols}

SumWeightArgs ==
    {NoWeights} \cup
    UNION {[kind : {"list", "ndarray"}, w : [1..m -> {1, 2}]]
           : m \in 0..(MaxSumCols + 1)}

InitSum ==
    /\ \E d \in SumData, w \in SumWeightArgs :
          call = [op |-> "sum", data |-> d, weights |-> w]
    /\ res = NoCall
    /\ res2 = NoCall
    /\ colls = NoCall
    /\ heap = <<>>
    /\ cells = <<>>
    /\ last = NoLast
    /\ steps = 0
    /\ sparse = <<>>
    /\ tdRate = 0
    /\ tdRunDur = 0
    /\ tdPc = "idle"
    /\ tdTs = <<>>
    /\ tdRet = NoCall

\* sum()._transform(data, weights)
DoSum ==
    /\ call.op = "sum"
    /\ res = NoCall
    /\ res' = SumTransform(call.data, call.weights)
    /\ UNCHANGED <<call, res2, colls>>
    /\ UNCHANGED <<tdVars, objVars>>

NextSum == DoSum

SpecSum == InitSum /\ [][NextSum]_vars

(***************************************************************************)
(* C14.  Sum weight arity: Sum over k inputs with weights of a length      *)
(* other than k fails with ValueError, weights passed as a plain list      *)
(* included; with weights of length k it does not fail.                    *)
(***************************************************************************)
Summed == call.op = "sum" /\ res # NoCall

C14_SumWeightArity ==
    (Summed /\ call.weights.kind # "None") =>
        IF Len(call.weights.w) # Len(call.data.cols)
        THEN res = Raise("ValueError")
        ELSE res.kind = "return"

(***************************************************************************)
(* C15.  Sum result: for aligned inputs a_1..a_k and weights w_1..w_k, the *)
(* output holds sum_j w_j * a_j[r] at every row r; without weights every   *)
(* w_j is 1.                                                               *)
(***************************************************************************)
RECURSIVE WeightedRow(_, _, _, _)
WeightedRow(cols, weights, r, j) ==
    IF j > Len(cols) THEN 0
    ELSE (IF weights.kind = "None" THEN 1 ELSE weights.w[j]) * cols[j][r]
         + WeightedRow(cols, weights, r, j + 1)

C15_SumIsWeightedRowSum ==
    (Summed /\ (call.weights.kind = "None"
                 \/ Len(call.weights.w) = Len(call.data.cols))) =>
        /\ res.kind = "return"
        /\ \A r \in 1..SumRows :
              res.val[r] = WeightedRow(call.data.cols, call.weights, r, 1)

(***************************************************************************)
(* threshold._transform(data, threshold, binarize, above, signed) of       *)
(* bids/events/transform/compute.py, on a series of integers.  The result  *)
(* holds the series returned (ret) and the series the caller passed as it  *)
(* is after the call (arg).                                                *)
(***************************************************************************)
MaxThrRows == 3
MaxAbs == 2

Abs(x) == IF x < 0 THEN -x ELSE x

\* line 99 with > and < in place of >= and <=
KeepStrict(x, t, above) == IF above THEN x > t ELSE x < t

\* line 99: keep = data >= threshold if above else data <= threshold
Keep(x, t, above) == IF above THEN x >= t ELSE x <= t

ThresholdTransform(data, threshold, binarize, above, signed) ==
    LET t == IF signed THEN threshold ELSE Abs(threshold)
        d == IF signed THEN data ELSE [k \in DOMAIN data |-> Abs(data[k])]
        keep == [k \in DOMAIN d |-> Keep(d[k], t, above)]
        d1 == [k \in DOMAIN d |-> IF keep[k] THEN d[k] ELSE 0]
        d2 == IF binarize
              THEN [k \in DOMAIN d |-> IF keep[k] THEN 1 ELSE d1[k]]
              ELSE d1
    IN  [ret |-> Return(d2),
         \* data.abs() is a new series; without it lines 101-103 write into
         \* the series passed
         arg |-> IF signed THEN d2 ELSE data]

InitThreshold ==
    /\ \E d \in UNION {[1..n -> (-MaxAbs)..MaxAbs] : n \in 1..MaxThrRows},
          t \in (-MaxAbs)..MaxAbs :
          call = [op |-> "threshold", data |-> d, threshold |-> t]
    /\ res = NoCall
    /\ res2 = NoCall
    /\ colls = NoCall
    /\ heap = <<>>
    /\ cells = <<>>
    /\ last = NoLast
    /\ steps = 0
    /\ sparse = <<>>
    /\ tdRate = 0
    /\ tdRunDur = 0
    /\ tdPc = "idle"
    /\ tdTs = <<>>
    /\ tdRet = NoCall

\* threshold()._transform(data, threshold, binarize, above, signed)
DoThreshold(binarize, above, signed) ==
    /\ call.op = "threshold"
    /\ res = NoCall
    /\ res' = ThresholdTransform(call.data, call.threshold, binarize, above, signed)
                @@ [binarize |-> binarize, above |-> above, signed |-> signed]
    /\ UNCHANGED <<call, res2, colls>>
    /\ UNCHANGED <<tdVars, objVars>>

NextThreshold ==
    \E binarize \in BOOLEAN, above \in BOOLEAN, signed \in BOOLEAN :
        DoThreshold(binarize, above, signed)

SpecThreshold == InitThreshold /\ [][NextThreshold]_vars

(***************************************************************************)
(* C16.  Threshold with binarize=True: every output element is 0 or 1,     *)
(* and it is 1 exactly at the elements that satisfy the policy (value >=   *)
(* threshold for above=True, value <= threshold for above=False, absolute  *)
(* values of data and threshold compared when signed=False); so the sum of *)
(* the output is the number of satisfying elements.                        *)
(***************************************************************************)
Thresholded == call.op = "threshold" /\ res # NoCall

Satisfies(x, t, above, signed) ==
    LET xx == IF signed THEN x ELSE Abs(x)
        tt == IF signed THEN t ELSE Abs(t)
    IN  (above /\ xx >= tt) \/ (~above /\ xx <= tt)

Satisfying ==
    {k \in DOMAIN call.data :
        Satisfies(call.data[k], call.threshold, res.above, res.signed)}

RECURSIVE SeqSum(_, _)
SeqSum(s, i) == IF i > Len(s) THEN 0 ELSE s[i] + SeqSum(s, i + 1)

C17_MaskKeepsOriginalValues ==
    (Thresholded /\ ~res.binarize) =>
        /\ res.ret.kind = "return"
        /\ \A k \in DOMAIN call.data :
              res.ret.val[k] = (IF k \in Satisfying THEN call.data[k] ELSE 0)

(***************************************************************************)
(* The Factor transformation (bids.analysis.transformations), which the    *)
(* tests of test_transformations.py call: a categorical variable is coded  *)
(* into one indicator variable per level.  data holds the level of each    *)
(* row; an indicator holds one rational per row.                           *)
(***************************************************************************)
MaxFactorRows == 3
MaxLevel == 2

Constraints == {"none", "drop_one", "mean_zero"}
Separators == {".", "@"}

\* the levels of the variable, sorted
LevelsOf(data) == SetToSeq({data[r] : r \in DOMAIN data})

\* drop_one and mean_zero that leave the reference level in
ReducedKeepsAll(lv, constraint) == FALSE

\* drop_one and mean_zero omit the first level, the reference, unless it
\* is the only one (test_factor, "only one unique value in variable")
Reduced(lv, constraint) == constraint # "none" /\ Len(lv) > 1

\* the indicator of level lev at a row whose level is x
Indicator(lv, constraint, lev, x) ==
    IF x = lev THEN <<1, 1>>
    ELSE IF constraint = "mean_zero" /\ Reduced(lv, constraint) /\ x = lv[1]
    THEN Rat(-1, Len(lv) - 1)
    ELSE <<0, 1>>

\* the variables Factor writes, in the order of their levels
Factor(name, data, constraint, sep) ==
    LET lv == LevelsOf(data)
        kept == IF Reduced(lv, constraint) THEN Tail(lv) ELSE lv
    IN  [j \in DOMAIN kept |->
            [name |-> name \o sep \o ToString(kept[j]),
             values |-> [r \in DOMAIN data |->
                            Indicator(lv, constraint, kept[j], data[r])]]]

InitFactor ==
    /\ \E d \in UNION {[1..n -> 0..MaxLevel] : n \in 1..MaxFactorRows} :
          call = [op |-> "factor", name |-> "a", data |-> d]
    /\ res = NoCall
    /\ res2 = NoCall
    /\ colls = NoCall
    /\ heap = <<>>
    /\ cells = <<>>
    /\ last = NoLast
    /\ steps = 0
    /\ sparse = <<>>
    /\ tdRate = 0
    /\ tdRunDur = 0
    /\ tdPc = "idle"
    /\ tdTs = <<>>
    /\ tdRet = NoCall

\* Factor(collection, name, constraint=constraint, sep=sep)
DoFactor(constraint, sep) ==
    /\ call.op = "factor"
    /\ res = NoCall
    /\ res' = [ret |-> ReturnNone,
               written |-> Factor(call.name, call.data, constraint, sep),
               constraint |-> constraint, sep |-> sep]
    /\ UNCHANGED <<call, res2, colls>>
    /\ UNCHANGED <<tdVars, objVars>>

NextFactor == \E constraint \in Constraints, sep \in Separators :
                  DoFactor(constraint, sep)

SpecFactor == InitFactor /\ [][NextFactor]_vars

(***************************************************************************)
(* C18.  Factor rank invariants: for a variable with k levels, full-rank   *)
(* Factor writes k indicators named '{var}{sep}{level}' with values in     *)
(* {0, 1} whose row-wise sum is 1 in every row; drop_one writes k-1        *)
(* indicators (first level omitted) whose row-wise sum is 0 or 1;          *)
(* mean_zero writes k-1 variables whose row-wise sum is -1 or 1.  Each has *)
(* as many rows as the source variable.                                    *)
(***************************************************************************)
Factored == call.op = "factor" /\ res # NoCall

RowSum(written, r) ==
    RatSum([j \in DOMAIN written |-> written[j].values[r]], 1)

\* the indicators are those of the levels lv, named and sized as claimed
IndicatorsOf(lv) ==
    /\ Len(res.written) = Len(lv)
    /\ \A j \in DOMAIN res.written :
         /\ res.written[j].name = call.name \o res.sep \o ToString(lv[j])
         /\ Len(res.written[j].values) = Len(call.data)

FullRankHolds ==
    /\ IndicatorsOf(LevelsOf(call.data))
    /\ \A j \in DOMAIN res.written : \A r \in DOMAIN call.data :
          res.written[j].values[r] \in {<<0, 1>>, <<1, 1>>}
    /\ \A r \in DOMAIN call.data : RowSum(res.written, r) = <<1, 1>>

DropOneHolds ==
    /\ IndicatorsOf(Tail(LevelsOf(call.data)))
    /\ \A r \in DOMAIN call.data :
          RowSum(res.written, r) \in {<<0, 1>>, <<1, 1>>}

MeanZeroHolds ==
    /\ IndicatorsOf(Tail(LevelsOf(call.data)))
    /\ \A r \in DOMAIN call.data :
          RowSum(res.written, r) \in {<<-1, 1>>, <<1, 1>>}

C18_FactorRankInvariants ==
    Factored =>
        /\ res.constraint = "none" => FullRankHolds
        /\ res.constraint = "drop_one" => DropOneHolds
        /\ res.constraint = "mean_zero" => MeanZeroHolds

(***************************************************************************)
(* C18, amended.  As C18, with the statements about drop_one and mean_zero *)
(* made of variables with at least two levels.                             *)
(***************************************************************************)
C18_FactorRankInvariantsFromTwoLevels ==
    Factored =>
        /\ res.constraint = "none" => FullRankHolds
        /\ (res.constraint = "drop_one" /\ Len(LevelsOf(call.data)) >= 2)
              => DropOneHolds
        /\ (res.constraint = "mean_zero" /\ Len(LevelsOf(call.data)) >= 2)
              => MeanZeroHolds

C18_Witness ==
    /\ Factored
    /\ res.constraint = "mean_zero"
    /\ Len(LevelsOf(call.data)) = 3
    /\ \E r \in DOMAIN call.data : RowSum(res.written, r) = <<-1, 1>>
    /\ \E r \in DOMAIN call.data : RowSum(res.written, r) = <<1, 1>>

(***************************************************************************)
(* The DropNA transformation (bids.analysis.transformations), which        *)
(* test_dropna calls on a sparse variable: the rows whose value is         *)
(* undefined are removed.                                                  *)
(***************************************************************************)
MaxNaRows == 3

\* an undefined value (NaN)
NaN == <<0, 0>>

\* the rows i.. of a column at which the value is defined, in order
RECURSIVE Defined(_, _, _)
Defined(column, values, i) ==
    IF i > Len(values) THEN <<>>
    ELSE (IF values[i] # NaN THEN <<column[i]>> ELSE <<>>)
         \o Defined(column, values, i + 1)

\* DropNA that compacts the values alone
DropNAValuesOnly(v) ==
    [v EXCEPT !.values.data = Defined(v.values.data, v.values.data, 1)]

\* values, onset, duration and the entity index compacted in lockstep
DropNA(v) ==
    [v EXCEPT !.values.data = Defined(v.values.data, v.values.data, 1),
              !.onset.data = Defined(v.onset.data, v.values.data, 1),
              !.duration.data = Defined(v.duration.data, v.values.data, 1),
              !.entities.data = Defined(v.entities.data, v.values.data, 1)]

\* sparse variables with defined amplitudes (1 or 2) and undefined ones,
\* one event per row
NaInputs ==
    {SparseRunVariable("var", amp,
                       [k \in 1..Len(amp) |-> 3 * k - 1],
                       [k \in 1..Len(amp) |-> k],
                       [k \in 1..Len(amp) |-> [subject |-> 1, row |-> k]],
                       <<Run(1, 10 * TimeDen)>>)
     : amp \in UNION {[1..n -> {<<1, 1>>, <<2, 1>>, NaN}] : n \in 1..MaxNaRows}}

InitDropNA ==
    /\ \E v \in NaInputs, out \in {"var", "clean"} :
          call = [op |-> "dropna", self |-> v, output |-> out]
    /\ res = NoCall
    /\ res2 = NoCall
    /\ colls = NoCall
    /\ heap = <<>>
    /\ cells = <<>>
    /\ last = NoLast
    /\ steps = 0
    /\ sparse = <<>>
    /\ tdRate = 0
    /\ tdRunDur = 0
    /\ tdPc = "idle"
    /\ tdTs = <<>>
    /\ tdRet = NoCall

\* DropNA(collection, 'var', output=...): the variable written
DoDropNA ==
    /\ call.op = "dropna"
    /\ res = NoCall
    /\ res' = [ret |-> ReturnNone,
               obj |-> [DropNA(call.self) EXCEPT !.name = call.output]]
    /\ UNCHANGED <<call, res2, colls>>
    /\ UNCHANGED <<tdVars, objVars>>

NextDropNA == DoDropNA

SpecDropNA == InitDropNA /\ [][NextDropNA]_vars

(***************************************************************************)
(* C19.  DropNA lockstep compaction: after DropNA on a sparse variable the *)
(* variable holds exactly the rows whose value was defined, in their       *)
(* original order; values, onset, duration and the entity index have the   *)
(* same length, and row i of each describes the same original event.       *)
(***************************************************************************)
DroppedNA == call.op = "dropna" /\ res # NoCall

\* the original rows whose value is defined, in order
DefinedRows == SetToSeq({i \in DOMAIN call.self.values.data :
                            call.self.values.data[i] # NaN})

C19_DropNALockstep ==
    DroppedNA =>
        LET v == call.self
            out == res.obj
            n == Len(DefinedRows)
        IN  /\ Len(out.values.data) = n
            /\ Len(out.onset.data) = n
            /\ Len(out.duration.data) = n
            /\ Len(out.entities.data) = n
            /\ \A i \in 1..n :
                 /\ out.values.data[i] = v.values.data[DefinedRows[i]]
                 /\ out.onset.data[i] = v.onset.data[DefinedRows[i]]
                 /\ out.duration.data[i] = v.duration.data[DefinedRows[i]]
                 /\ out.entities.data[i] = v.entities.data[DefinedRows[i]]

C19_Witness ==
    /\ DroppedNA
    /\ Len(call.self.values.data) = 3
    /\ call.self.values.data[2] = NaN
    /\ Len(res.obj.values.data) = 2
    /\ res.obj.onset.data = <<2, 8>>

(***************************************************************************)
(* Collections (bids.variables.kollekshuns in the tests).  A collection    *)
(* holds a reference to its mapping from names to variables (dicts) and a  *)
(* reference to its cross-cutting attributes (entities, sampling rate,     *)
(* default duration), which are never written.  The variables are objects  *)
(* of the heap.                                                            *)
(***************************************************************************)
MaxColls == 2
MaxCollSteps == 3

CollIds == 1..MaxColls
CollNameSeq == <<"a", "b">>
CollNames == {"a", "b"}
NoVar == 0
NoColl == [variables |-> 0, attrs |-> 0]
NoDict == [n \in CollNames |-> NoVar]

LiveColls(cs) == {c \in CollIds : cs.of[c] # NoColl}
DictOf(cs, c) == cs.dicts[cs.of[c].variables]
Keys(cs, c) == {n \in CollNames : DictOf(cs, c)[n] # NoVar}

\* the objects some mapping refers to
Held(cs) ==
    UNION {{DictOf(cs, c)[n] : n \in Keys(cs, c)} : c \in LiveColls(cs)}

\* an object no mapping refers to any more is gone
Collect(h, cs) == [i \in ObjIds |-> IF i \in Held(cs) THEN h[i] ELSE NoObj]

\* the variables of collection c cloned one by one, from name k on, into
\* the mapping d
RECURSIVE CloneVariables(_, _, _, _, _)
CloneVariables(h, c, src, d, k) ==
    IF k > Len(CollNameSeq) THEN [heap |-> h, cells |-> c, dict |-> d]
    ELSE LET n == CollNameSeq[k] IN
         IF src[n] = NoVar THEN CloneVariables(h, c, src, d, k + 1)
         ELSE LET cl == Clone(h, c, src[n], NoContainer, NoName)
              IN  CloneVariables(cl.heap, cl.cells, src,
                                 [d EXCEPT ![n] = cl.ret.val], k + 1)

\* Collection.clone(): a new collection with a mapping of its own to
\* copies of the variables, and the original's attribute objects
CollectionClone(h, c, cs, from, to) ==
    LET cv == CloneVariables(h, c, DictOf(cs, from), NoDict, 1)
    IN  [heap |-> cv.heap, cells |-> cv.cells,
         colls |-> [of |-> [cs.of EXCEPT ![to] = [variables |-> to,
                                                  attrs |-> cs.of[from].attrs]],
                    dicts |-> [cs.dicts EXCEPT ![to] = cv.dict]]]

\* coll = collection.clone()
DoCollectionClone(from) ==
    /\ steps < MaxCollSteps
    /\ from \in LiveColls(colls)
    /\ LiveColls(colls) # CollIds
    /\ Cardinality(Live(heap)) + Cardinality(Keys(colls, from)) <= MaxObjs
    /\ LET to == MinOf(CollIds \ LiveColls(colls))
           r == CollectionClone(heap, cells, colls, from, to)
       IN  /\ heap' = r.heap
           /\ cells' = r.cells
           /\ colls' = r.colls
           /\ last' = [op |-> "clone", coll |-> from, ret |-> Return(to)]
    /\ steps' = steps + 1
    /\ UNCHANGED <<tdVars, call, res, res2>>

\* coll[name] = coll[src].clone(name=name)
DoInsert(c, name, src) ==
    /\ steps < MaxCollSteps
    /\ c \in LiveColls(colls)
    /\ src \in Keys(colls, c)
    /\ Live(heap) # ObjIds
    /\ LET cl == Clone(heap, cells, DictOf(colls, c)[src], NoContainer, name)
           cs == [colls EXCEPT !.dicts[colls.of[c].variables][name] = cl.ret.val]
       IN  /\ heap' = Collect(cl.heap, cs)
           /\ cells' = cl.cells
           /\ colls' = cs
           /\ last' = [op |-> "insert", coll |-> c, name |-> name, ret |-> ReturnNone]
    /\ steps' = steps + 1
    /\ UNCHANGED <<tdVars, call, res, res2>>

\* Delete(coll, name)
DoDelete(c, name) ==
    /\ steps < MaxCollSteps
    /\ c \in LiveColls(colls)
    /\ name \in Keys(colls, c)
    /\ LET cs == [colls EXCEPT !.dicts[colls.of[c].variables][name] = NoVar]
       IN  /\ heap' = Collect(heap, cs)
           /\ colls' = cs
           /\ last' = [op |-> "delete", coll |-> c, name |-> name, ret |-> ReturnNone]
    /\ steps' = steps + 1
    /\ UNCHANGED <<cells, tdVars, call, res, res2>>

\* Rename(coll, old, output=new)
DoRename(c, old, new) ==
    /\ steps < MaxCollSteps
    /\ c \in LiveColls(colls)
    /\ old \in Keys(colls, c)
    /\ new # old
    /\ LET i == DictOf(colls, c)[old]
           cs == [colls EXCEPT !.dicts[colls.of[c].variables] =
                                  [@ EXCEPT ![new] = i, ![old] = NoVar]]
       IN  /\ heap' = Collect([heap EXCEPT ![i].name = new], cs)
           /\ colls' = cs
           /\ last' = [op |-> "rename", coll |-> c, name |-> old, ret |-> ReturnNone]
    /\ steps' = steps + 1
    /\ UNCHANGED <<cells, tdVars, call, res, res2>>

\* a transformation that writes into the values of coll[name], as
\* scale._transform and threshold._transform write into their data
DoTransform(c, name) ==
    /\ steps < MaxCollSteps
    /\ c \in LiveColls(colls)
    /\ name \in Keys(colls, c)
    /\ LET i == DictOf(colls, c)[name] IN
        /\ cells[heap[i].values].data # <<>>
        /\ cells' = [cells EXCEPT ![heap[i].values].data[1] = Marker("values")]
    /\ last' = [op |-> "transform", coll |-> c, name |-> name, ret |-> ReturnNone]
    /\ steps' = steps + 1
    /\ UNCHANGED <<heap, colls, tdVars, call, res, res2>>

\* one collection holding one variable
CollectionVariables ==
    {DenseRunVariable("a", Ramp(2), <<Run(1, 2 * TimeDen)>>, 1),
     SimpleVariable("a", <<<<1, 1>>, <<2, 1>>>>,
                    <<[ent |-> 1, time |-> 0], [ent |-> 2, time |-> 0]>>),
     SparseRunVariable("a", <<<<1, 1>>, <<2, 1>>>>, <<0, 2>>, <<2, 2>>,
                       <<[ent |-> 1, time |-> 0], [ent |-> 1, time |-> 0]>>,
                       <<Run(1, 2 * TimeDen)>>)}

InitCollection ==
    /\ \E v \in CollectionVariables :
         LET n == NewObject([i \in ObjIds |-> NoObj],
                            [k \in CellIds |-> NoContainer], 1, v)
         IN  heap = n.heap /\ cells = n.cells
    /\ colls = [of |-> [c \in CollIds |->
                          IF c = 1 THEN [variables |-> 1, attrs |-> 1] ELSE NoColl],
                dicts |-> [d \in CollIds |->
                          IF d = 1 THEN [NoDict EXCEPT !["a"] = 1] ELSE NoDict]]
    /\ last = NoLast
    /\ steps = 0
    /\ call = NoCall
    /\ res = NoCall
    /\ res2 = NoCall
    /\ sparse = <<>>
    /\ tdRate = 0
    /\ tdRunDur = 0
    /\ tdPc = "idle"
    /\ tdTs = <<>>
    /\ tdRet = NoCall

NextCollection ==
    \/ \E c \in CollIds : DoCollectionClone(c)
    \/ \E c \in CollIds, n \in CollNames, src \in CollNames : DoInsert(c, n, src)
    \/ \E c \in CollIds, n \in CollNames : DoDelete(c, n)
    \/ \E c \in CollIds, old \in CollNames, new \in CollNames : DoRename(c, old, new)
    \/ \E c \in CollIds, n \in CollNames : DoTransform(c, n)

SpecCollection == InitCollection /\ [][NextCollection]_vars

(***************************************************************************)
(* C20.  Collection clone isolation: Collection.clone() returns a distinct *)
(* collection with the same key set whose mapping is a different object    *)
(* and whose cross-cutting attributes are the identical objects of the     *)
(* original; no insert, delete, rename or transformation applied to one    *)
(* collection changes the key set or the variables' contents of another.   *)
(***************************************************************************)
\* the variables of collection c by name, with their contents
ContentsOf(h, c, cs, k) ==
    [n \in CollNames |->
        IF n \in Keys(cs, k) THEN View(h, c, DictOf(cs, k)[n]) ELSE NoObj]

C20_CloneStep ==
    LET from == last'.coll
        to == last'.ret.val
    IN  /\ to # from
        /\ to \notin LiveColls(colls)
        /\ Keys(colls', to) = Keys(colls, from)
        /\ colls'.of[to].variables # colls'.of[from].variables
        /\ \A n \in Keys(colls', to) :
              DictOf(colls', to)[n] # DictOf(colls', from)[n]
        /\ colls'.of[to].attrs = colls'.of[from].attrs
        /\ \A k \in LiveColls(colls) :
              ContentsOf(heap', cells', colls', k) = ContentsOf(heap, cells, colls, k)

C20_EditStep ==
    \A k \in LiveColls(colls) \ {last'.coll} :
        /\ k \in LiveColls(colls')
        /\ ContentsOf(heap', cells', colls', k) = ContentsOf(heap, cells, colls, k)
        /\ colls'.of[k].attrs = colls.of[k].attrs

C20_CollectionCloneIsolation ==
    [][IF last'.op = "clone" THEN C20_CloneStep ELSE C20_EditStep]_vars

C20_Witness ==
    /\ last.op = "transform"
    /\ last.coll = 2
    /\ LiveColls(colls) = {1, 2}
    /\ "a" \in Keys(colls, 1) /\ "a" \in Keys(colls, 2)
    /\ ContentsOf(heap, cells, colls, 2)["a"].values.data[1] = Marker("values")
    /\ ContentsOf(heap, cells, colls, 1)["a"].values.data[1] # Marker("values")
    /\ colls.of[1].attrs = colls.of[2].attrs

(***************************************************************************)
(* The common entry point of the transformations, called as                *)
(* transform.Copy(collection, inputs, output=..., output_suffix=...,       *)
(* regex_variables='variables').  The collection is seen here as its       *)
(* mapping from names to values.  The entry point selects the input        *)
(* variables, names the outputs, checks the two counts against each other  *)
(* and only then writes.                                                   *)
(***************************************************************************)
MaxInputs == 2
MaxOutputs == 2

NoSuffix == ""
NoOutput == <<>>

\* the names a collection may hold, in the order of its key set
ExpKeySeq == <<"RT", "respcat", "respnum", "respnum_copy">>
ExpValues == [RT |-> <<5, 6>>, respcat |-> <<3, 4>>, respnum |-> <<1, 2>>,
              respnum_copy |-> <<7, 8>>]
ExpPatterns == {"resp", "RT", "cat", "x"}
ExpOutputs == {"out", "RT"}

\* re.search of a literal pattern in a name
Matches(pattern, name) ==
    \E i \in 1..(Len(name) - Len(pattern) + 1) :
        SubSeq(name, i, i + Len(pattern) - 1) = pattern

\* the keys of the collection that match the pattern, in key order
RECURSIVE MatchVariables(_, _, _)
MatchVariables(coll, pattern, k) ==
    IF k > Len(ExpKeySeq) THEN <<>>
    ELSE (IF ExpKeySeq[k] \in DOMAIN coll /\ Matches(pattern, ExpKeySeq[k])
          THEN <<ExpKeySeq[k]>> ELSE <<>>)
         \o MatchVariables(coll, pattern, k + 1)

\* each pattern replaced by the names it matches
RECURSIVE RegexReplaceVariables(_, _)
RegexReplaceVariables(coll, args) ==
    IF args = <<>> THEN <<>>
    ELSE MatchVariables(coll, Head(args), 1)
         \o RegexReplaceVariables(coll, Tail(args))

\* the output names: the declared ones, or one per input from the suffix
OutputNames(variables, output, suffix) ==
    IF suffix # NoSuffix
    THEN [i \in DOMAIN variables |-> variables[i] \o suffix]
    ELSE output

\* the two counts are never compared
CompatibleAlways(n, m) == TRUE

\* the number of inputs and the number of output names agree
Compatible(n, m) == n = m

\* collection[names[i]] = values[i], one after the other
RECURSIVE WriteOutputs(_, _, _, _)
WriteOutputs(coll, names, values, i) ==
    IF i > Len(names) \/ i > Len(values) THEN coll
    ELSE WriteOutputs([n \in DOMAIN coll \cup {names[i]} |->
                          IF n = names[i] THEN values[i] ELSE coll[n]],
                      names, values, i + 1)

\* Copy(collection, inputs, output, output_suffix, regex_variables)
CopyTransform(coll, inputs, output, suffix, regex) ==
    LET variables == IF regex THEN RegexReplaceVariables(coll, inputs)
                     ELSE inputs
    IN  IF \E i \in DOMAIN variables : variables[i] \notin DOMAIN coll
        THEN [ret |-> Raise("KeyError"), coll |-> coll]
        ELSE LET names == OutputNames(variables, output, suffix)
                 selected == [i \in DOMAIN variables |-> coll[variables[i]]]
             IN  IF ~Compatible(Len(variables), Len(names))
                 THEN [ret |-> Raise("ValueError"), coll |-> coll]
                 ELSE [ret |-> ReturnNone,
                       coll |-> WriteOutputs(coll, names, selected, 1)]

SeqsUpTo(S, n) == UNION {[1..k -> S] : k \in 1..n}

ExpCollections ==
    {[n \in K |-> ExpValues[n]] : K \in SUBSET {"RT", "respcat", "respnum",
                                                "respnum_copy"}}

\* an output list, an output suffix, or neither
ExpNaming ==
    {[output |-> o, suffix |-> NoSuffix] :
        o \in {NoOutput} \cup SeqsUpTo(ExpOutputs, MaxOutputs)}
    \cup {[output |-> NoOutput, suffix |-> "_copy"]}

InitExpand ==
    /\ \E c \in ExpCollections, in \in SeqsUpTo(ExpPatterns, MaxInputs),
          nm \in ExpNaming, regex \in BOOLEAN :
          call = [op |-> "copy", coll |-> c, inputs |-> in,
                  output |-> nm.output, suffix |-> nm.suffix, regex |-> regex]
    /\ res = NoCall
    /\ res2 = NoCall
    /\ colls = NoCall
    /\ heap = <<>>
    /\ cells = <<>>
    /\ last = NoLast
    /\ steps = 0
    /\ sparse = <<>>
    /\ tdRate = 0
    /\ tdRunDur = 0
    /\ tdPc = "idle"
    /\ tdTs = <<>>
    /\ tdRet = NoCall

DoCopy ==
    /\ call.op = "copy"
    /\ res = NoCall
    /\ res' = CopyTransform(call.coll, call.inputs, call.output, call.suffix,
                            call.regex)
    /\ UNCHANGED <<call, res2, colls>>
    /\ UNCHANGED <<tdVars, objVars>>

NextExpand == DoCopy

SpecExpand == InitExpand /\ [][NextExpand]_vars

(***************************************************************************)
(* C21.  Regex input expansion arity: when the input patterns expand,      *)
(* against the collection's key set, to n names and the m declared output  *)
(* names do not number n (no suffix being given), the call raises and the  *)
(* collection holds the names and values it held; when an output suffix is *)
(* given instead, the call returns, the collection has gained exactly one  *)
(* name '{input}{suffix}' per expanded input, holding the values that      *)
(* input had, and nothing else has changed.                                *)
(***************************************************************************)
Expanded == call.op = "copy" /\ res # NoCall /\ call.regex

\* the keys some input pattern matches
ExpandedKeys ==
    {k \in DOMAIN call.coll :
        \E i \in DOMAIN call.inputs : Matches(call.inputs[i], k)}

\* how many names the patterns expand to, a key counted once per pattern
ExpandedCount ==
    LET hits == {<<i, k>> \in (DOMAIN call.inputs) \X (DOMAIN call.coll) :
                    Matches(call.inputs[i], k)}
    IN  Cardinality(hits)

C21_RegexExpansionArity ==
    Expanded =>
        /\ (call.suffix = NoSuffix /\ Len(call.output) # ExpandedCount) =>
              /\ res.ret.kind = "raise"
              /\ res.coll = call.coll
        /\ call.suffix # NoSuffix =>
              /\ res.ret = ReturnNone
              /\ DOMAIN res.coll =
                    DOMAIN call.coll \cup {k \o call.suffix : k \in ExpandedKeys}
              /\ \A k \in ExpandedKeys :
                    res.coll[k \o call.suffix] = call.coll[k]
              /\ \A k \in DOMAIN call.coll :
                    k \notin {e \o call.suffix : e \in ExpandedKeys} =>
                        res.coll[k] = call.coll[k]

\* test_regex_variable_expansion: 'resp' matches respnum and respcat
C21_Witness ==
    /\ Expanded
    /\ call.inputs = <<"resp">>
    /\ DOMAIN call.coll = {"RT", "respcat", "respnum"}
    /\ call.suffix = "_copy"
    /\ DOMAIN res.coll = {"RT", "respcat", "respnum", "respcat_copy",
                          "respnum_copy"}
    /\ res.coll["respnum_copy"] = <<1, 2>>
    /\ res.coll["respcat_copy"] = <<3, 4>>

\* the same call with neither output names nor a suffix fails
C21_WitnessMismatch ==
    /\ Expanded
    /\ call.inputs = <<"resp">>
    /\ DOMAIN call.coll = {"RT", "respcat", "respnum"}
    /\ call.suffix = NoSuffix
    /\ call.output = NoOutput
    /\ res.ret = Raise("ValueError")

(***************************************************************************)
(* Long-format rows and the design matrix.  to_df is the code's; the       *)
(* collection's get_design_matrix joins the frames of the selected         *)
(* variables and keeps the rows the entity filters admit.  A frame is its  *)
(* set of columns and its rows, each row a function of the columns.        *)
(***************************************************************************)
MaxDmRows == 2
MaxSubject == 2

\* lines 108, 206: _property_columns
PropertyColumns(cls) == IF cls = "Sparse" THEN {"onset", "duration"} ELSE {}

\* lines 137-159: to_df(condition, entities)
ToDf(v, condition, entities) ==
    LET amp == IF condition THEN "amplitude" ELSE v.name
        ents == IF entities THEN ColumnsOf(v) ELSE {}
        columns == {amp} \cup PropertyColumns(v.cls)
                   \cup (IF condition THEN {"condition"} ELSE {}) \cup ents
    IN  [columns |-> columns,
         rows |-> [i \in DOMAIN v.values.data |->
                     [c \in columns |->
                        IF c \in ents THEN v.entities.data[i][c]
                        ELSE IF c = "condition" /\ condition THEN v.name
                        ELSE IF c \in PropertyColumns(v.cls)
                        THEN (IF c = "onset" THEN v.onset.data[i]
                              ELSE v.duration.data[i])
                        ELSE v.values.data[i]]]]

\* pd.concat(frames, axis=0): the union of the columns, a row undefined in
\* the columns its frame lacks
RECURSIVE ConcatFrames(_, _)
ConcatFrames(frames, columns) ==
    IF frames = <<>> THEN <<>>
    ELSE LET f == Head(frames)
         IN  [i \in DOMAIN f.rows |->
                [c \in columns |->
                    IF c \in f.columns THEN f.rows[i][c] ELSE NaN]]
             \o ConcatFrames(Tail(frames), columns)

\* every row passes
PassesAll(row, filters) == TRUE

\* the row has, in each filtered entity, one of the values asked for
Passes(row, filters) == \A e \in DOMAIN filters : row[e] \in filters[e]

RECURSIVE FilterRows(_, _)
FilterRows(rows, filters) ==
    IF rows = <<>> THEN <<>>
    ELSE (IF Passes(Head(rows), filters) THEN <<Head(rows)>> ELSE <<>>)
         \o FilterRows(Tail(rows), filters)

\* collection.get_design_matrix(columns=..., **entity_filters)
GetDesignMatrix(coll, columns, filters) ==
    LET frames == [k \in DOMAIN columns |-> ToDf(coll[columns[k]], TRUE, TRUE)]
        all == UNION {frames[k].columns : k \in DOMAIN frames}
    IN  [ret |-> Return("frame"),
         columns |-> all,
         rows |-> FilterRows(ConcatFrames(frames, all), filters)]

DmNames == {"RT", "gain"}

\* a variable of either kind with one row per event, each of one subject
DmVariable(cls, name, subject) ==
    LET n == Len(subject)
        amp == [k \in 1..n |-> <<1, 1>>]
        ents == [k \in 1..n |-> [subject |-> subject[k], run |-> 1]]
    IN  IF cls = "Sparse"
        THEN SparseRunVariable(name, amp, [k \in 1..n |-> k - 1],
                               [k \in 1..n |-> 1], ents, <<Run(1, 2 * TimeDen)>>)
        ELSE SimpleVariable(name, amp, ents)

DmSubjects == UNION {[1..n -> 1..MaxSubject] : n \in 1..MaxDmRows}

\* the collections: each variable event-based or simple
DmCollections ==
    {[n \in DmNames |-> DmVariable(cls[n], n, s[n])] :
        cls \in [DmNames -> {"Simple", "Sparse"}], s \in [DmNames -> DmSubjects]}

DmColumns == {<<"RT">>, <<"gain">>, <<"RT", "gain">>}

DmFilters ==
    {[e \in D |-> S] : D \in SUBSET {"subject"}, S \in SUBSET (1..MaxSubject)}

InitDesignMatrix ==
    /\ \E c \in DmCollections, cols \in DmColumns, f \in DmFilters :
          call = [op |-> "get_design_matrix", coll |-> c, columns |-> cols,
                  filters |-> f]
    /\ res = NoCall
    /\ res2 = NoCall
    /\ colls = NoCall
    /\ heap = <<>>
    /\ cells = <<>>
    /\ last = NoLast
    /\ steps = 0
    /\ sparse = <<>>
    /\ tdRate = 0
    /\ tdRunDur = 0
    /\ tdPc = "idle"
    /\ tdTs = <<>>
    /\ tdRet = NoCall

DoGetDesignMatrix ==
    /\ call.op = "get_design_matrix"
    /\ res = NoCall
    /\ res' = GetDesignMatrix(call.coll, call.columns, call.filters)
    /\ UNCHANGED <<call, res2, colls>>
    /\ UNCHANGED <<tdVars, objVars>>

NextDesignMatrix == DoGetDesignMatrix

SpecDesignMatrix == InitDesignMatrix /\ [][NextDesignMatrix]_vars

DesignMatrixBuilt == call.op = "get_design_matrix" /\ res # NoCall

\* the rows of source variable name that pass the filters, in order
SourceRows(name) ==
    LET v == call.coll[name]
    IN  SetToSeq({i \in DOMAIN v.values.data :
                    \A e \in DOMAIN call.filters :
                        v.entities.data[i][e] \in call.filters[e]})

\* the rows of the result tagged with the name, in order
TaggedRows(name) ==
    SetToSeq({j \in DOMAIN res.rows : res.rows[j]["condition"] = name})

Selected == {call.columns[k] : k \in DOMAIN call.columns}

RECURSIVE CountRows(_)
CountRows(names) ==
    IF names = {} THEN 0
    ELSE LET n == CHOOSE x \in names : TRUE
         IN  Len(SourceRows(n)) + CountRows(names \ {n})

\* the rows of the result are the filtered rows of the sources
DesignMatrixRows ==
    /\ res.ret.kind = "return"
    /\ Len(res.rows) = CountRows(Selected)
    /\ \A j \in DOMAIN res.rows :
          /\ res.rows[j]["condition"] \in Selected
          /\ \A e \in DOMAIN call.filters : res.rows[j][e] \in call.filters[e]
    /\ \A n \in Selected :
          LET v == call.coll[n]
              src == SourceRows(n)
              out == TaggedRows(n)
          IN  /\ Len(out) = Len(src)
              /\ \A k \in DOMAIN src :
                    /\ res.rows[out[k]]["amplitude"] = v.values.data[src[k]]
                    /\ \A e \in ColumnsOf(v) :
                          res.rows[out[k]][e] = v.entities.data[src[k]][e]
                    /\ v.cls = "Sparse" =>
                          /\ res.rows[out[k]]["onset"] = v.onset.data[src[k]]
                          /\ res.rows[out[k]]["duration"] = v.duration.data[src[k]]

EntityColumns == UNION {ColumnsOf(call.coll[n]) : n \in Selected}

EventsOf(v) ==
    [i \in DOMAIN v.values.data |->
        [onset |-> v.onset.data[i], duration |-> v.duration.data[i],
         amplitude |-> v.values.data[i]]]

RECURSIVE RunSpan(_)
RunSpan(run_info) ==
    IF run_info = <<>> THEN 0
    ELSE Head(run_info).duration + RunSpan(Tail(run_info))

\* lines 212-225: v.to_dense(sampling_rate)
ToDenseOf(v, sampling_rate) ==
    ToDenseResult(DenseBuffer(EventsOf(v), sampling_rate, RunSpan(v.run_info)))

\* a sparse member without run descriptors cannot be densified
CanDensify(v) == v.run_info # <<>>

\* the sparse members from name k on, densified one after the other
RECURSIVE DensifyAll(_, _, _)
DensifyAll(coll, rate, k) ==
    IF k > Len(CollNameSeq) THEN [coll |-> coll, ret |-> ReturnNone]
    ELSE LET n == CollNameSeq[k] IN
         IF n \notin DOMAIN coll \/ coll[n].cls # "Sparse"
         THEN DensifyAll(coll, rate, k + 1)
         ELSE IF ~CanDensify(coll[n])
         THEN [coll |-> coll, ret |-> Raise("ValueError")]
         ELSE LET d == ToDenseOf(coll[n], rate) IN
              IF d.kind = "raise" THEN [coll |-> coll, ret |-> d]
              ELSE DensifyAll(
                      [coll EXCEPT ![n] = DenseRunVariable(n, d.val,
                                              coll[n].run_info, rate)],
                      rate, k + 1)

\* the dense members from name k on, resampled in place one after the other
RECURSIVE ResampleAll(_, _, _)
ResampleAll(coll, rate, k) ==
    IF k > Len(CollNameSeq) THEN [coll |-> coll, ret |-> ReturnNone]
    ELSE LET n == CollNameSeq[k] IN
         IF n \notin DOMAIN coll \/ coll[n].cls # "Dense"
         THEN ResampleAll(coll, rate, k + 1)
         ELSE LET rs == ResampleInPlace(coll[n], rate, "linear")
                  cl == [coll EXCEPT ![n] = rs.obj]
              IN  IF rs.ret.kind = "raise" THEN [coll |-> cl, ret |-> rs.ret]
                  ELSE ResampleAll(cl, rate, k + 1)

\* collection.resample(rate, force_dense=..., in_place=True)
CollectionResample(coll, rate, force_dense) ==
    LET dn == IF force_dense THEN DensifyAll(coll, rate, 1)
              ELSE [coll |-> coll, ret |-> ReturnNone]
    IN  IF dn.ret.kind = "raise" THEN dn ELSE ResampleAll(dn.coll, rate, 1)

\* the members a collection may hold: dense at some rate, sparse with its
\* run descriptor, sparse without
ResampleMembers(n) ==
    {DenseRunVariable(n, Ramp(Len(build_entity_index(ri, sr).data)), ri, sr) :
        ri \in {<<Run(1, TimeDen + 1)>>, <<Run(1, 2 * TimeDen)>>},
        sr \in 1..(MaxRate - 1)}
    \cup {SparseRunVariable(n, <<<<1, 1>>, <<2, 1>>>>, <<0, 2>>, <<2, 2>>,
                            <<[ent |-> 1, time |-> 0], [ent |-> 1, time |-> 0]>>,
                            ri) : ri \in {<<>>, <<Run(1, 2 * TimeDen)>>}}

ResampleCollections ==
    UNION {{c \in [K -> UNION {ResampleMembers(n) : n \in K}] :
               \A n \in K : c[n].name = n}
           : K \in (SUBSET CollNames) \ {{}}}

InitCollectionResample ==
    /\ \E c \in ResampleCollections, rate \in 1..MaxRate, fd \in BOOLEAN :
          call = [op |-> "resample", coll |-> c, rate |-> rate,
                  force_dense |-> fd]
    /\ res = NoCall
    /\ res2 = NoCall
    /\ colls = NoCall
    /\ heap = <<>>
    /\ cells = <<>>
    /\ last = NoLast
    /\ steps = 0
    /\ sparse = <<>>
    /\ tdRate = 0
    /\ tdRunDur = 0
    /\ tdPc = "idle"
    /\ tdTs = <<>>
    /\ tdRet = NoCall

DoCollectionResample ==
    /\ call.op = "resample"
    /\ res = NoCall
    /\ res' = CollectionResample(call.coll, call.rate, call.force_dense)
    /\ UNCHANGED <<call, res2, colls>>
    /\ UNCHANGED <<tdVars, objVars>>

NextCollectionResample == DoCollectionResample

SpecCollectionResample == InitCollectionResample /\ [][NextCollectionResample]_vars

CollectionResampled == call.op = "resample" /\ res # NoCall

MembersOf(cls) == {n \in DOMAIN call.coll : call.coll[n].cls = cls}

\* every member that was dense is at the rate, its samples scaled by
\* rate / old rate
DenseMembersAtRate ==
    \A n \in MembersOf("Dense") :
        /\ res.coll[n].sampling_rate = call.rate
        /\ Len(res.coll[n].values.data) =
              Ceil(Len(call.coll[n].values.data) * call.rate,
                   call.coll[n].sampling_rate)

(***************************************************************************)
(* C23.  Collection.resample(rate, force_dense, in_place=True): after a    *)
(* call that returns, every member that was dense is at the rate with its  *)
(* sample count scaled accordingly; with force_dense the call on a         *)
(* collection whose sparse members all carry their run metadata returns    *)
(* and leaves every member dense at the rate; with force_dense and a       *)
(* sparse member that lacks its run metadata the call raises.              *)
(***************************************************************************)
C23_CollectionResample ==
    CollectionResampled =>
        /\ res.ret.kind = "return" => DenseMembersAtRate
        /\ call.force_dense =>
              IF \A n \in MembersOf("Sparse") : call.coll[n].run_info # <<>>
              THEN /\ res.ret.kind = "return"
                   /\ \A n \in DOMAIN res.coll :
                         /\ res.coll[n].cls = "Dense"
                         /\ res.coll[n].sampling_rate = call.rate
              ELSE res.ret.kind = "raise"

(***************************************************************************)
(* A transformation writing to an output name of its own.  The entry point *)
(* clones the input variable under the output name, hands the clone's      *)
(* values to the operation's _transform, which writes into the series it   *)
(* is handed, and stores the clone, holding the result, under the output   *)
(* name.  The variables are objects of the heap.                           *)
(***************************************************************************)
MaxTrRows == 2
MaxTrSteps == 2

\* scale._transform(data, demean=True, rescale=False), lines 14-15 and 18:
\* data -= data.mean() writes into data, which is returned
DemeanTransform(data) ==
    LET s == RatSum(data, 1)
        mean == Rat(s[1], s[2] * Len(data))
        d == [k \in DOMAIN data |-> RatAdd(data[k], <<-mean[1], mean[2]>>)]
    IN  [ret |-> Return(d), arg |-> d]

\* threshold._transform on whole numbers held as rationals
ThresholdRat(data, threshold, binarize, above, signed) ==
    LET r == ThresholdTransform([k \in DOMAIN data |-> data[k][1]],
                                threshold, binarize, above, signed)
    IN  [ret |-> Return([k \in DOMAIN data |-> <<r.ret.val[k], 1>>]),
         arg |-> [k \in DOMAIN data |-> <<r.arg[k], 1>>]]

Whole(data) == \A k \in DOMAIN data : data[k][2] = 1

\* the entry point, with tr the outcome of _transform on the values of
\* the clone: the heap, the cells and the mapping after the call
TransformTo(h, c, cs, coll, name, out, tr) ==
    LET cl == Clone(h, c, DictOf(cs, coll)[name], NoContainer, out)
        j == cl.ret.val
        handed == cl.heap[j].values
        c1 == [cl.cells EXCEPT ![handed].data = tr.arg]
        v == [View(cl.heap, c1, j) EXCEPT !.values = Series(tr.ret.val, out)]
        st == AssignAttrs(cl.heap, c1, j, v, {"values"})
        cs1 == [cs EXCEPT !.dicts[cs.of[coll].variables][out] = j]
    IN  [heap |-> Collect(st.heap, cs1), cells |-> st.cells, colls |-> cs1]

\* Demean(collection, name, output=out)
DoDemeanTo(c, name, out) ==
    /\ steps < MaxTrSteps
    /\ c \in LiveColls(colls)
    /\ name \in Keys(colls, c)
    /\ out # name
    /\ Live(heap) # ObjIds
    /\ LET data == cells[heap[DictOf(colls, c)[name]].values].data
           tr == DemeanTransform(data)
           r == TransformTo(heap, cells, colls, c, name, out, tr)
       IN  /\ data # <<>>
           /\ heap' = r.heap
           /\ cells' = r.cells
           /\ colls' = r.colls
           /\ last' = [op |-> "demean", coll |-> c, name |-> name, out |-> out,
                       result |-> tr.ret.val, ret |-> ReturnNone,
                       pre |-> ContentsOf(heap, cells, colls, c)]
    /\ steps' = steps + 1
    /\ UNCHANGED <<tdVars, call, res, res2>>

\* Threshold(collection, name, output=out, threshold=..., binarize=...,
\* above=..., signed=...)
DoThresholdTo(c, name, out, threshold, binarize, above, signed) ==
    /\ steps < MaxTrSteps
    /\ c \in LiveColls(colls)
    /\ name \in Keys(colls, c)
    /\ out # name
    /\ Live(heap) # ObjIds
    /\ LET data == cells[heap[DictOf(colls, c)[name]].values].data
           tr == ThresholdRat(data, threshold, binarize, above, signed)
           r == TransformTo(heap, cells, colls, c, name, out, tr)
       IN  /\ Whole(data)
           /\ heap' = r.heap
           /\ cells' = r.cells
           /\ colls' = r.colls
           /\ last' = [op |-> "threshold", coll |-> c, name |-> name, out |-> out,
                       result |-> tr.ret.val, ret |-> ReturnNone,
                       pre |-> ContentsOf(heap, cells, colls, c)]
    /\ steps' = steps + 1
    /\ UNCHANGED <<tdVars, call, res, res2>>

\* the values of the one variable the collection starts with
TrValues == UNION {[1..n -> {<<v, 1>> : v \in (-1)..1}] : n \in 1..MaxTrRows}

TransformVariables ==
    {SimpleVariable("a", d, [k \in DOMAIN d |-> [ent |-> k, time |-> 0]]) :
        d \in TrValues}
    \cup {SparseRunVariable("a", d, [k \in DOMAIN d |-> k - 1],
                            [k \in DOMAIN d |-> 1],
                            [k \in DOMAIN d |-> [ent |-> 1, time |-> 0]],
                            <<Run(1, 2 * TimeDen)>>) : d \in TrValues}

InitTransform ==
    /\ \E v \in TransformVariables :
         LET n == NewObject([i \in ObjIds |-> NoObj],
                            [k \in CellIds |-> NoContainer], 1, v)
         IN  heap = n.heap /\ cells = n.cells
    /\ colls = [of |-> [c \in CollIds |->
                          IF c = 1 THEN [variables |-> 1, attrs |-> 1] ELSE NoColl],
                dicts |-> [d \in CollIds |->
                          IF d = 1 THEN [NoDict EXCEPT !["a"] = 1] ELSE NoDict]]
    /\ last = NoLast
    /\ steps = 0
    /\ call = NoCall
    /\ res = NoCall
    /\ res2 = NoCall
    /\ sparse = <<>>
    /\ tdRate = 0
    /\ tdRunDur = 0
    /\ tdPc = "idle"
    /\ tdTs = <<>>
    /\ tdRet = NoCall

NextTransform ==
    \/ \E c \in CollIds, n \in CollNames, out \in CollNames : DoDemeanTo(c, n, out)
    \/ \E c \in CollIds, n \in CollNames, out \in CollNames, t \in (-1)..1,
          binarize \in BOOLEAN, above \in BOOLEAN, signed \in BOOLEAN :
          DoThresholdTo(c, n, out, t, binarize, above, signed)

SpecTransform == InitTransform /\ [][NextTransform]_vars

TransformedTo == last.op \in {"demean", "threshold"}

(***************************************************************************)
(* C24.  Transformations do not mutate their inputs when writing to a      *)
(* different output name: after Demean or Threshold of variable x with     *)
(* output name y # x, the collection's x is the object it was and holds    *)
(* the values, and every other content, it held before the call, although  *)
(* _transform writes into the series it is handed; y holds the result, and *)
(* no name other than y has been created, removed or changed.              *)
(***************************************************************************)
C24_TransformLeavesInput ==
    TransformedTo =>
        LET now == ContentsOf(heap, cells, colls, last.coll)
        IN  /\ now[last.name] = last.pre[last.name]
            /\ now[last.name].values.data = last.pre[last.name].values.data
            /\ \A n \in CollNames \ {last.out} : now[n] = last.pre[n]
            /\ last.out \in Keys(colls, last.coll)
            /\ now[last.out].values.data = last.result
            /\ now[last.out].name = last.out

\* a demeaning that changes the values: y differs from x, x is as it was
C24_Witness ==
    /\ last.op = "demean"
    /\ last.name = "a" /\ last.out = "b"
    /\ last.pre["a"].values.data = <<<<1, 1>>, <<0, 1>>>>
    /\ ContentsOf(heap, cells, colls, 1)["b"].values.data = <<<<1, 2>>, <<-1, 2>>>>
    /\ ContentsOf(heap, cells, colls, 1)["a"].values.data = <<<<1, 1>>, <<0, 1>>>>

=============================================================================
